---- MODULE Spec2Model ----
(***************************************************************************)
(* A model of sqigl: the build planner (src/actions/build.rs) and the      *)
(* database backend protocol (src/backend/{postgres,sqlite}/mod.rs).       *)
(*                                                                         *)
(* Paths are sequences of path components.  <<>> is the project root,      *)
(* <<"src">> the project's source directory.                               *)
(***************************************************************************)
EXTENDS Integers, Sequences, FiniteSets, TLC

VARIABLES
    \* ---- the project on disk (input of build_project) ----
    tree,            \* [dirs: set of paths, files: set of paths]
    manifests,       \* module directory -> ModuleManifest (Default when no sqigl.toml)
    dir_order,       \* directory -> the order read_dir returns its children in
    \* ---- build_project's locals ----
    debug_assertions,\* "either": build profile not yet observed; "off": release build
    depend_stack,    \* Vec<Task>
    defer_stack,     \* Vec<PathBuf>
    completed_tasks, \* BTreeSet<PathBuf>
    scripts,         \* Vec<PathBuf>, the output
    build_result,    \* [kind: "init" | "running" | "Ok" | "Err" | "panic", ...]
    \* ---- the managed database, shared by the engine instances ----
    backend,         \* "postgres" | "sqlite" ("none": no database is connected)
    db,              \* the committed rows: sqigl's tables and the user's schema
    lock,            \* instance -> the database lock its connection holds
    \* ---- one engine instance (one invocation of the tool) each ----
    call,            \* instance -> the call it is in, or made last
    pc,              \* instance -> its position in that call
    art,             \* instance -> the artifact passed to the call
    tx,              \* instance -> the uncommitted writes of its open transaction
    ran,             \* instance -> the chunks the call has executed so far
    seen,            \* instance -> the SqiglState the call read inside its transaction
    result,          \* instance -> what the last finished call returned
    \* ---- history of the run ----
    lock_log,        \* the apply calls in the order they acquired the state-row lock
    last_applied,    \* the artifact of the latest apply that committed
    \* ---- the tool outside the planner and the backend ----
    earlier,         \* what an earlier build_project of the same project returned
    stream,          \* Artifact::scripts in progress: the artifact, hasher, consumer
    store            \* the artifacts directory: version directory -> files and manifest

buildVars == <<tree, manifests, dir_order, debug_assertions, depend_stack,
               defer_stack, completed_tasks, scripts, build_result>>

dbVars == <<backend, db, lock, call, pc, art, tx, ran, seen, result, lock_log, last_applied>>

toolVars == <<earlier, stream, store>>

vars == <<buildVars, dbVars, toolVars>>

\* the build planner runs without a database connection
NoDatabase ==
    /\ backend = "none"
    /\ db = <<>>
    /\ lock = <<>>
    /\ call = <<>>
    /\ pc = <<>>
    /\ art = <<>>
    /\ tx = <<>>
    /\ ran = <<>>
    /\ seen = <<>>
    /\ result = <<>>
    /\ lock_log = <<>>
    /\ last_applied = <<>>

\* no earlier build, no artifact being streamed, no artifacts directory in use
NoEarlier == [kind |-> "none", scripts |-> <<>>]
NoStream == [phase |-> "idle"]
NoStore == [dirs |-> <<>>]
NoTooling ==
    /\ earlier = NoEarlier
    /\ stream = NoStream
    /\ store = NoStore

----------------------------------------------------------------------------
(* Bounds *)

\* the scheduling loop is followed while the defer stack holds at most this many paths
MaxDeferred == 5

\* the number of apply calls that take the state-row lock and meet no failing
\* statement
MaxApplies == 2

\* the commands run on a project are counted up to MaxCommands
MaxCommands == 5

----------------------------------------------------------------------------
(* Paths *)

SQL_EXTENSION == "sql"

Last(s) == s[Len(s)]

\* Path::parent
Parent(p) == SubSeq(p, 1, Len(p) - 1)

\* Path::starts_with
StartsWith(p, base) ==
    /\ Len(p) >= Len(base)
    /\ SubSeq(p, 1, Len(base)) = base

\* Path::extension of the last component; file names of the model carry their
\* extension as a [stem, ext] record
Extension(p) == IF p = <<>> THEN "" ELSE Last(p).ext

FileName(stem, ext) == [stem |-> stem, ext |-> ext]
DirName(stem) == [stem |-> stem, ext |-> ""]
DotDot == [stem |-> "..", ext |-> ""]

\* ProjectInfo::source_dir: <project root>/src
source_dir == <<DirName("src")>>

----------------------------------------------------------------------------
(* The source trees the planner is run on *)

ModA == source_dir \o <<DirName("a")>>
ModAB == ModA \o <<DirName("b")>>
ModC == source_dir \o <<DirName("c")>>

\* src/a/x.sql, src/a/b/x.sql, src/a/b/n.txt, src/c/x.sql, src/c/y.sql
FullTree ==
    [dirs  |-> {<<>>, source_dir, ModA, ModAB, ModC},
     files |-> {ModA \o <<FileName("x", "sql")>>,
                ModAB \o <<FileName("x", "sql")>>,
                ModAB \o <<FileName("n", "txt")>>,
                ModC \o <<FileName("x", "sql")>>,
                ModC \o <<FileName("y", "sql")>>}]

\* an empty src/ directory
EmptyTree == [dirs |-> {<<>>, source_dir}, files |-> {}]

\* no src/ directory at all
NoSourceTree == [dirs |-> {<<>>}, files |-> {}]

\* Path::exists, Path::is_dir, Path::is_file
Exists(t, p) == p \in t.dirs \/ p \in t.files
IsDir(t, p) == p \in t.dirs
IsFile(t, p) == p \in t.files

\* the entries of a directory (sqigl.toml itself, a regular non-sql file that the
\* planner skips like any other, is left out of the listing)
Children(t, d) == {p \in t.dirs \cup t.files : p # <<>> /\ Parent(p) = d}

\* the modules of a tree: every directory under the source root
Modules(t) == {d \in t.dirs : StartsWith(d, source_dir)}

\* all orders in which the file system may list a set of entries
Perms(S) ==
    {f \in [1..Cardinality(S) -> S] : \A i, j \in 1..Cardinality(S) : f[i] = f[j] => i = j}

\* every assignment of a listing order to each of the directories `mods`
RECURSIVE OrdersOver(_, _)
OrdersOver(t, mods) ==
    IF mods = {} THEN {<<>>}
    ELSE LET d == CHOOSE m \in mods : TRUE
         IN  {(d :> o) @@ rest : o \in Perms(Children(t, d)),
                                 rest \in OrdersOver(t, mods \ {d})}

DirOrders(t) == OrdersOver(t, Modules(t))

----------------------------------------------------------------------------
(* Module manifests (src/manifest/module.rs) *)

\* a dependency path as written in a manifest: a leading "/" (abs) and components
Dep(abs, comps) == [abs |-> abs, comps |-> comps]

\* ModuleManifest::default(): no module dependencies, no [[scripts]]
DefaultManifest == [dependencies |-> <<>>, scripts |-> <<>>]

\* the dependency paths manifests of the model are written with
DepPool ==
    {Dep(FALSE, <<FileName("x", "sql")>>),          \* "x.sql"
     Dep(FALSE, <<FileName("y", "sql")>>),          \* "y.sql"
     Dep(FALSE, <<>>),                              \* "."
     Dep(FALSE, <<DotDot>>),                        \* ".."
     Dep(FALSE, <<DirName("b")>>),                  \* "b"
     Dep(TRUE, <<DirName("c")>>),                   \* "/c"
     Dep(TRUE, <<DirName("a"), FileName("x", "sql")>>),  \* "/a/x.sql"
     Dep(TRUE, <<DirName("a"), DirName("b")>>)}     \* "/a/b"

\* a declaration: one dependency added to module.dependencies of `dir` (script = "")
\* or to the dependencies of the [[scripts]] entry of `script` in `dir`
Decls(t) ==
    {[dir |-> d, script |-> DirName(""), dep |-> dp] : d \in Modules(t), dp \in DepPool}
    \cup {[dir |-> Parent(f), script |-> Last(f), dep |-> dp] :
            f \in {g \in t.files : Extension(g) = SQL_EXTENSION}, dp \in DepPool}

\* manifests carry at most two dependency declarations in all
FullTreeDecls == Decls(FullTree)
FullTreeDeclLists ==
    {<<>>} \cup {<<d>> : d \in FullTreeDecls}
           \cup {<<d, e>> : d \in FullTreeDecls, e \in FullTreeDecls}

IndexOfScript(entries, name) ==
    LET hits == {i \in 1..Len(entries) : entries[i].script = name}
    IN  IF hits = {} THEN 0 ELSE CHOOSE i \in hits : \A j \in hits : i <= j

\* write one declaration into a module manifest; a script has one [[scripts]] entry
AddDecl(m, decl) ==
    IF decl.script = DirName("")
    THEN [m EXCEPT !.dependencies = Append(@, decl.dep)]
    ELSE LET i == IndexOfScript(m.scripts, decl.script)
         IN  IF i = 0
             THEN [m EXCEPT !.scripts =
                        Append(@, [script |-> decl.script, dependencies |-> <<decl.dep>>])]
             ELSE [m EXCEPT !.scripts[i].dependencies = Append(@, decl.dep)]

RECURSIVE WriteManifest(_, _, _)
WriteManifest(m, dir, decls) ==
    IF decls = <<>> THEN m
    ELSE WriteManifest(IF Head(decls).dir = dir THEN AddDecl(m, Head(decls)) ELSE m,
                       dir, Tail(decls))

ManifestsOf(mods, decls) == [d \in mods |-> WriteManifest(DefaultManifest, d, decls)]

----------------------------------------------------------------------------
(* The build planner (src/actions/build.rs) *)

\* enum Task
ModuleTask(path) == [kind |-> "Module", path |-> path]
ScriptTask(path) == [kind |-> "Script", path |-> path]

\* enum BuildError; DependencyCycle carries cycle_path
NoError == [kind |-> "none", module |-> <<>>, dep |-> <<>>, cycle_path |-> <<>>]
BuildError(kind, module, dep) ==
    [kind |-> kind, module |-> module, dep |-> dep, cycle_path |-> <<>>]
DependencyCycle(cycle_path) ==
    [kind |-> "DependencyCycle", module |-> <<>>, dep |-> <<>>, cycle_path |-> cycle_path]

\* one step of Path::canonicalize: `at` is the resolved prefix; every prefix has to
\* exist and be a directory, ".." steps to the parent
Resolve(t, at, comp) ==
    IF ~at.ok \/ ~IsDir(t, at.path) THEN [ok |-> FALSE, path |-> at.path]
    ELSE IF comp = DotDot
         THEN [ok |-> TRUE, path |-> IF at.path = <<>> THEN <<>> ELSE Parent(at.path)]
    ELSE [ok |-> Exists(t, at.path \o <<comp>>), path |-> at.path \o <<comp>>]

\* Path::canonicalize: resolve the components one by one from the project root
RECURSIVE Canonicalize(_, _, _)
Canonicalize(t, comps, n) ==
    IF n = 0 THEN [ok |-> TRUE, path |-> <<>>]
    ELSE CHOOSE r \in {Resolve(t, at, comps[n]) : at \in {Canonicalize(t, comps, n - 1)}} : TRUE

\* build.rs 41-71, given the result `c` of Path::canonicalize
CheckedDepPath(c, module_dir, noncanonical_path) ==
    IF ~c.ok
    THEN [ok |-> FALSE, path |-> <<>>,
          err |-> BuildError("DependencyDoesNotExist", module_dir, noncanonical_path)]
    ELSE IF StartsWith(c.path, source_dir)
    THEN [ok |-> TRUE, path |-> c.path, err |-> NoError]
    ELSE [ok |-> FALSE, path |-> <<>>,
          err |-> BuildError("DependencyOutsideRoot", module_dir, c.path)]

canonicalize_dep_path(t, dep, module_dir) ==
    CHOOSE r \in {CheckedDepPath(Canonicalize(t, p, Len(p)), module_dir, p) :
                      p \in {IF dep.abs THEN source_dir \o dep.comps
                                        ELSE module_dir \o dep.comps}} : TRUE

dep_module_path(t, dep) == IF IsDir(t, dep) THEN dep ELSE Parent(dep)

\* the first index of the stack holding a task with this path, 0 when there is none
StackIndex(stack, path) ==
    LET hits == {i \in 1..Len(stack) : stack[i].path = path}
    IN  IF hits = {} THEN 0 ELSE CHOOSE i \in hits : \A j \in hits : i <= j

\* what one call of process_module_task / process_script_task asks for:
\*   op = "push_module" | "push_script" | "err" | "complete" | "skip"
\* `defers` are the subdirectories handed to defer_module during the call and
\* `assert_ok` is FALSE when a debug_assert! of the call does not hold
Outcome(op, path, err, defers, assert_ok) ==
    [op |-> op, path |-> path, err |-> err, defers |-> defers, assert_ok |-> assert_ok]
Skip == Outcome("skip", <<>>, NoError, <<>>, TRUE)
Fail(err) == Outcome("err", <<>>, err, <<>>, TRUE)

\* the outcome of the first dependency of the loop that returns or pushes
FirstActing(outs) ==
    LET acting == SelectSeq(outs, LAMBDA o : o.op # "skip")
    IN  IF acting = <<>> THEN Skip ELSE Head(acting)

\* a planner that reads module.dependencies and schedules none of them
ModuleDepIgnored(t, module_path, completed, dep) == Skip

\* a module-dependency pass without the test for the module itself
ModuleDepSelfPushed(t, module_path, completed, dep) ==
    LET c == canonicalize_dep_path(t, dep, module_path)
        dep_module == dep_module_path(t, c.path)
    IN  IF ~c.ok THEN Fail(c.err)
        ELSE IF dep_module \in completed THEN Skip
        ELSE IF ~StartsWith(dep_module, source_dir)
        THEN Fail(BuildError("DependencyOutsideRoot", module_path, c.path))
        ELSE Outcome("push_module", dep_module, NoError, <<>>, TRUE)

\* build.rs 200-227: one entry of module.dependencies
ModuleDepOutcome(t, module_path, completed, dep) ==
    LET c == canonicalize_dep_path(t, dep, module_path)
        dep_module == dep_module_path(t, c.path)
    IN  IF ~c.ok THEN Fail(c.err)
        ELSE IF dep_module \in completed THEN Skip
        ELSE IF dep_module = module_path THEN Skip
        ELSE IF ~StartsWith(dep_module, source_dir)
        THEN Fail(BuildError("DependencyOutsideRoot", module_path, c.path))
        ELSE Outcome("push_module", dep_module, NoError, <<>>, TRUE)

\* build.rs 228-248: one dependency of one [[scripts]] entry
ScriptDepOutcome(t, module_path, completed, dep) ==
    LET c == canonicalize_dep_path(t, dep, module_path)
        dep_module == dep_module_path(t, c.path)
    IN  IF ~c.ok THEN Fail(c.err)
        ELSE IF ~StartsWith(dep_module, source_dir)
        THEN Fail(BuildError("DependencyOutsideRoot", module_path, c.path))
        ELSE IF dep_module # module_path
        THEN Outcome("push_module", dep_module, NoError, <<>>, TRUE)
        ELSE Skip

\* the dependencies of all [[scripts]] entries of a manifest, in manifest order
RECURSIVE AllScriptDeps(_)
AllScriptDeps(entries) ==
    IF entries = <<>> THEN <<>>
    ELSE Head(entries).dependencies \o AllScriptDeps(Tail(entries))

\* a walk of read_dir that takes every file for a script, whatever its extension
ScanAnyFile(t, children, completed) ==
    LET pending == {i \in 1..Len(children) :
                        children[i] \notin completed /\ IsFile(t, children[i])}
        stop == IF pending = {} THEN Len(children) + 1
                ELSE CHOOSE i \in pending : \A j \in pending : i <= j
        defers == SelectSeq(SubSeq(children, 1, stop - 1),
                            LAMBDA c : c \notin completed /\ IsDir(t, c))
    IN  IF pending = {} THEN Outcome("complete", <<>>, NoError, defers, TRUE)
        ELSE Outcome("push_script", children[stop], NoError, defers, TRUE)

\* build.rs 250-273: walk read_dir in the order the file system lists the entries, up
\* to the first .sql file that is not completed; the subdirectories met on the way
\* are deferred
ScanChildren(t, children, completed) ==
    LET pending == {i \in 1..Len(children) :
                        /\ children[i] \notin completed
                        /\ ~IsDir(t, children[i])
                        /\ IsFile(t, children[i])
                        /\ Extension(children[i]) = SQL_EXTENSION}
        stop == IF pending = {} THEN Len(children) + 1
                ELSE CHOOSE i \in pending : \A j \in pending : i <= j
        defers == SelectSeq(SubSeq(children, 1, stop - 1),
                            LAMBDA c : c \notin completed /\ IsDir(t, c))
    IN  IF pending = {} THEN Outcome("complete", <<>>, NoError, defers, TRUE)
        ELSE Outcome("push_script", children[stop], NoError, defers, TRUE)

\* a module task that does not wait for its parent directory
module_task_without_parent(t, mans, order, module_path, completed) ==
    LET module == mans[module_path]
        deps == [i \in 1..Len(module.dependencies) |->
                    ModuleDepOutcome(t, module_path, completed, module.dependencies[i])]
        sdeps == [i \in 1..Len(AllScriptDeps(module.scripts)) |->
                    ScriptDepOutcome(t, module_path, completed,
                                     AllScriptDeps(module.scripts)[i])]
    IN  IF FirstActing(deps).op # "skip" THEN FirstActing(deps)
        ELSE IF FirstActing(sdeps).op # "skip" THEN FirstActing(sdeps)
        ELSE ScanChildren(t, order[module_path], completed)

\* build.rs 180-274
process_module_task(t, mans, order, module_path, completed) ==
    LET parent == Parent(module_path)
        module == mans[module_path]
        deps == [i \in 1..Len(module.dependencies) |->
                    ModuleDepOutcome(t, module_path, completed, module.dependencies[i])]
        sdeps == [i \in 1..Len(AllScriptDeps(module.scripts)) |->
                    ScriptDepOutcome(t, module_path, completed,
                                     AllScriptDeps(module.scripts)[i])]
    IN  IF StartsWith(parent, source_dir) /\ parent \notin completed
        THEN Outcome("push_module", parent, NoError, <<>>, TRUE)
        ELSE IF FirstActing(deps).op # "skip" THEN FirstActing(deps)
        ELSE IF FirstActing(sdeps).op # "skip" THEN FirstActing(sdeps)
        ELSE ScanChildren(t, order[module_path], completed)

\* the dependencies of the first [[scripts]] entry with the script's file name
get_script_deps(path, module) ==
    LET i == IndexOfScript(module.scripts, Last(path))
    IN  IF i = 0 THEN <<>> ELSE module.scripts[i].dependencies

\* build.rs 285-307: one dependency of the script on top of the stack
SiblingDepOutcome(t, module_path, completed, dep) ==
    LET c == canonicalize_dep_path(t, dep, module_path)
    IN  IF ~c.ok THEN Fail(c.err)
        ELSE IF c.path \in completed THEN Skip
        ELSE IF (IF dep.comps = <<>> THEN "" ELSE Last(dep.comps).ext) # SQL_EXTENSION
        THEN Outcome("err", <<>>, BuildError("DependencyIllegal", module_path, dep.comps),
                     <<>>, dep_module_path(t, c.path) = module_path)
        ELSE Outcome("push_script", c.path, NoError, <<>>,
                     dep_module_path(t, c.path) = module_path)

process_script_task(t, mans, path, completed) ==
    LET module_path == Parent(path)
        ds == get_script_deps(path, mans[module_path])
        outs == [i \in 1..Len(ds) |-> SiblingDepOutcome(t, module_path, completed, ds[i])]
    IN  IF FirstActing(outs).op # "skip" THEN FirstActing(outs)
        ELSE Outcome("complete", <<>>, NoError, <<>>, TRUE)

----------------------------------------------------------------------------
(* build_project (build.rs 314-397) *)

Running == [kind |-> "running", scripts |-> <<>>, err |-> NoError]
ReturnOk(out) == [kind |-> "Ok", scripts |-> out, err |-> NoError]
ReturnErr(e) == [kind |-> "Err", scripts |-> <<>>, err |-> e]
Panicked == [kind |-> "panic", scripts |-> <<>>, err |-> NoError]

\* build.rs 353-358: pop the defer stack up to and including the first module that
\* is not completed (the stack is left empty when all of them are)
PopDeferred(defers, completed) ==
    LET waiting == {i \in 1..Len(defers) : defers[i] \notin completed}
        top == CHOOSE i \in waiting : \A j \in waiting : j <= i
    IN  IF waiting = {} THEN [found |-> FALSE, task |-> <<>>, rest |-> <<>>]
        ELSE [found |-> TRUE, task |-> defers[top], rest |-> SubSeq(defers, 1, top - 1)]

\* build.rs 350-359: the stacks at the `match depend_stack.last()` of this iteration
Scheduled ==
    IF depend_stack # <<>> THEN [stack |-> depend_stack, defers |-> defer_stack]
    ELSE LET d == PopDeferred(defer_stack, completed_tasks)
         IN  [stack |-> IF d.found THEN <<ModuleTask(d.task)>> ELSE <<>>,
              defers |-> d.rest]

\* the task peeked at by this iteration and what processing it asks for
Top == Last(Scheduled.stack)
Process(top) ==
    IF top.kind = "Module"
    THEN process_module_task(tree, manifests, dir_order, top.path, completed_tasks)
    ELSE process_script_task(tree, manifests, top.path, completed_tasks)
Processed == CHOOSE out \in {Process(top) : top \in {Top}} : TRUE

\* the debug_assert!s of an iteration that peeks `top` and gets `out`: those of the
\* process_* call, of push_module / push_script (89-95, 139-145) and of the
\* completion (392)
AssertsHold(top, out) ==
    /\ out.assert_ok
    /\ out.op = "push_module" => out.path \notin completed_tasks /\ IsDir(tree, out.path)
    /\ out.op = "push_script" => out.path \notin completed_tasks /\ IsFile(tree, out.path)
    /\ out.op = "complete" => top.path \notin completed_tasks

\* a push whose cycle path repeats the refused task at its end
PushClosing(stack, task) ==
    LET start == StackIndex(stack, task.path)
    IN  IF start # 0
        THEN [ok |-> FALSE, stack |-> stack,
              err |-> DependencyCycle(Append([i \in 1..(Len(stack) - start + 1) |->
                                                 stack[start + i - 1].path], task.path))]
        ELSE [ok |-> TRUE, stack |-> Append(stack, task), err |-> NoError]

\* push_module / push_script: the cycle check and the push (97-116, 147-165)
Push(stack, task) ==
    LET start == StackIndex(stack, task.path)
    IN  IF start # 0
        THEN [ok |-> FALSE, stack |-> stack,
              err |-> DependencyCycle([i \in 1..(Len(stack) - start + 1) |->
                                          stack[start + i - 1].path])]
        ELSE [ok |-> TRUE, stack |-> Append(stack, task), err |-> NoError]

\* the iteration would grow the defer stack past the bound of the model
DeferBoundReached ==
    /\ build_result.kind = "running"
    /\ Scheduled.stack # <<>>
    /\ Len(Scheduled.defers) + Len(Processed.defers) > MaxDeferred

\* one iteration of the scheduling loop with a task of kind `kind` on top of the
\* stack, the assertions passing or compiled out
Iterate(kind) ==
    /\ build_result.kind = "running"
    /\ \E sch \in {Scheduled} :
        /\ sch.stack # <<>>
        /\ Last(sch.stack).kind = kind
        /\ \E out \in {Processed} :
            /\ Len(sch.defers) + Len(out.defers) <= MaxDeferred
            /\ AssertsHold(Last(sch.stack), out) \/ debug_assertions = "off"
            /\ \/ /\ out.op = "err"
                  /\ build_result' = ReturnErr(out.err)
                  /\ UNCHANGED <<depend_stack, defer_stack, completed_tasks, scripts>>
               \/ /\ out.op \in {"push_module", "push_script"}
                  /\ \E pushed \in {Push(sch.stack,
                                         IF out.op = "push_module"
                                         THEN ModuleTask(out.path)
                                         ELSE ScriptTask(out.path))} :
                        /\ depend_stack' = pushed.stack
                        /\ build_result' = IF pushed.ok THEN build_result
                                           ELSE ReturnErr(pushed.err)
                  /\ defer_stack' = sch.defers \o out.defers
                  /\ UNCHANGED <<completed_tasks, scripts>>
               \/ /\ out.op = "complete"
                  /\ defer_stack' = sch.defers \o out.defers
                  /\ depend_stack' = SubSeq(sch.stack, 1, Len(sch.stack) - 1)
                  /\ scripts' = IF kind = "Script"
                                THEN Append(scripts, Last(sch.stack).path)
                                ELSE scripts
                  /\ completed_tasks' = completed_tasks \cup {Last(sch.stack).path}
                  /\ UNCHANGED build_result
    /\ UNCHANGED <<tree, manifests, dir_order, debug_assertions>>
    /\ UNCHANGED <<dbVars, toolVars>>

\* build.rs 364-375: the task on top of the stack is a module
ProcessModule == Iterate("Module")

\* build.rs 376-380: the task on top of the stack is a script
ProcessScript == Iterate("Script")

\* a debug_assert! of the iteration does not hold and the build profile is still open
AssertFails ==
    /\ build_result.kind = "running"
    /\ debug_assertions = "either"
    /\ \E sch \in {Scheduled} :
        /\ sch.stack # <<>>
        /\ ~AssertsHold(Last(sch.stack), Processed)

\* the failing assertion in a build with debug assertions: the thread panics
AssertPanic ==
    /\ AssertFails
    /\ build_result' = Panicked
    /\ UNCHANGED <<tree, manifests, dir_order, debug_assertions, depend_stack,
                   defer_stack, completed_tasks, scripts>>
    /\ UNCHANGED <<dbVars, toolVars>>

\* the same failing assertion in a release build: it is compiled out
AssertCompiledOut ==
    /\ AssertFails
    /\ debug_assertions' = "off"
    /\ UNCHANGED <<tree, manifests, dir_order, depend_stack, defer_stack,
                   completed_tasks, scripts, build_result>>
    /\ UNCHANGED <<dbVars, toolVars>>

\* build.rs 337-348: no source directory, or the source module is pushed
StartBuild ==
    /\ build_result.kind = "init"
    /\ IF ~Exists(tree, source_dir)
       THEN /\ build_result' = ReturnOk(scripts)
            /\ UNCHANGED depend_stack
       ELSE /\ depend_stack' = Push(depend_stack, ModuleTask(source_dir)).stack
            /\ build_result' = Running
    /\ UNCHANGED <<tree, manifests, dir_order, debug_assertions, defer_stack,
                   completed_tasks, scripts>>
    /\ UNCHANGED <<dbVars, toolVars>>

\* build.rs 349, 360-363, 395-396: both stacks are exhausted, the list is returned
FinishBuild ==
    /\ build_result.kind = "running"
    /\ Scheduled.stack = <<>>
    /\ defer_stack' = Scheduled.defers
    /\ build_result' = ReturnOk(scripts)
    /\ UNCHANGED <<tree, manifests, dir_order, debug_assertions, depend_stack,
                   completed_tasks, scripts>>
    /\ UNCHANGED <<dbVars, toolVars>>

\* the projects build_project is run on: the full tree under every manifest set and
\* every listing order, an empty source directory, and a missing one
FullTreeModules == Modules(FullTree)
FullTreeManifests == {ManifestsOf(FullTreeModules, decls) : decls \in FullTreeDeclLists}
FullTreeOrders == DirOrders(FullTree)
EmptyTreeOrders == DirOrders(EmptyTree)
NoSourceTreeOrders == DirOrders(NoSourceTree)

InitBuild ==
    /\ \/ /\ tree = FullTree
          /\ manifests \in FullTreeManifests
          /\ dir_order \in FullTreeOrders
       \/ /\ tree = EmptyTree
          /\ manifests = ManifestsOf({source_dir}, <<>>)
          /\ dir_order \in EmptyTreeOrders
       \/ /\ tree = NoSourceTree
          /\ manifests = ManifestsOf({}, <<>>)
          /\ dir_order \in NoSourceTreeOrders
    /\ debug_assertions = "either"
    /\ depend_stack = <<>>
    /\ defer_stack = <<>>
    /\ completed_tasks = {}
    /\ scripts = <<>>
    /\ build_result = [kind |-> "init", scripts |-> <<>>, err |-> NoError]
    /\ NoDatabase
    /\ NoTooling

NextBuild ==
    \/ StartBuild
    \/ ProcessModule
    \/ ProcessScript
    \/ AssertPanic
    \/ AssertCompiledOut
    \/ FinishBuild

SpecBuild == InitBuild /\ [][NextBuild]_vars

\* the scheduling loop keeps running until build_project returns or panics
FairSpecBuild == InitBuild /\ [][NextBuild]_vars /\ WF_vars(NextBuild)

----------------------------------------------------------------------------
(* Properties of the build planner *)

\* position of a path in a script list, 0 when it is not in it
Position(out, path) ==
    LET hits == {i \in 1..Len(out) : out[i] = path}
    IN  IF hits = {} THEN 0 ELSE CHOOSE i \in hits : \A j \in hits : i <= j

\* the .sql files directly inside a module directory
SqlFilesOf(t, m) ==
    {f \in t.files : Parent(f) = m /\ Extension(f) = SQL_EXTENSION}

\* every script of module m1 is in the list, before every listed script of m2
ModuleBefore(t, out, m1, m2) ==
    \A s1 \in SqlFilesOf(t, m1) :
        /\ Position(out, s1) # 0
        /\ \A i \in 1..Len(out) : Parent(out[i]) = m2 => Position(out, s1) < i

\* the module a declared dependency of module m points into (m itself when the
\* path does not resolve)
DepTarget(t, m, dep) ==
    LET c == canonicalize_dep_path(t, dep, m)
    IN  IF c.ok THEN dep_module_path(t, c.path) ELSE m

\* rule 1: the parent directory module
RespectsParents(t, out) ==
    \A m \in Modules(t) :
        StartsWith(Parent(m), source_dir) => ModuleBefore(t, out, Parent(m), m)

\* rule 2: module.dependencies
RespectsModuleDeps(t, mans, out) ==
    \A m \in Modules(t) : \A i \in 1..Len(mans[m].dependencies) :
        LET target == DepTarget(t, m, mans[m].dependencies[i])
        IN  target # m => ModuleBefore(t, out, target, m)

\* rule 3: cross-module dependencies of the module's scripts
RespectsHoistedDeps(t, mans, out) ==
    \A m \in Modules(t) : \A i \in 1..Len(AllScriptDeps(mans[m].scripts)) :
        LET target == DepTarget(t, m, AllScriptDeps(mans[m].scripts)[i])
        IN  target # m => ModuleBefore(t, out, target, m)

\* rule 5: sibling scripts named in a script's dependencies
RespectsSiblingDeps(t, mans, out) ==
    \A m \in Modules(t) : \A e \in 1..Len(mans[m].scripts) :
        \A i \in 1..Len(mans[m].scripts[e].dependencies) :
            LET s == m \o <<mans[m].scripts[e].script>>
                c == canonicalize_dep_path(t, mans[m].scripts[e].dependencies[i], m)
            IN  (Position(out, s) # 0 /\ c.ok /\ IsFile(t, c.path) /\ Parent(c.path) = m)
                    => (Position(out, c.path) # 0
                        /\ Position(out, c.path) < Position(out, s))

\* C1: whenever build_project returns Ok, the returned script list respects the
\* dependency edges of rules 1-5: the scripts of a module's parent module, of the
\* modules named in module.dependencies and of the modules its scripts depend on
\* come before the module's own scripts, and a sibling script named in a script's
\* dependencies comes before that script.
C1_OrderRespectsEdges ==
    build_result.kind = "Ok" =>
        /\ RespectsParents(tree, build_result.scripts)
        /\ RespectsModuleDeps(tree, manifests, build_result.scripts)
        /\ RespectsHoistedDeps(tree, manifests, build_result.scripts)
        /\ RespectsSiblingDeps(tree, manifests, build_result.scripts)

\* a build returned Ok for a tree with a nested module, a module-level dependency
\* on another module and a script depending on a sibling script
C1_Witness ==
    /\ build_result.kind = "Ok"
    /\ tree = FullTree
    /\ \E m \in Modules(tree) : \E i \in 1..Len(manifests[m].dependencies) :
            /\ DepTarget(tree, m, manifests[m].dependencies[i]) # m
            /\ ~StartsWith(m, DepTarget(tree, m, manifests[m].dependencies[i]))
    /\ \E m \in Modules(tree) : \E e \in 1..Len(manifests[m].scripts) :
            \E i \in 1..Len(manifests[m].scripts[e].dependencies) :
                LET c == canonicalize_dep_path(tree, manifests[m].scripts[e].dependencies[i], m)
                IN  c.ok /\ IsFile(tree, c.path) /\ Parent(c.path) = m

\* C2: build_project terminates on every finite source tree: the scheduling loop
\* reaches a returned script list or a BuildError, also when a script declares a
\* dependency outside its own module.
C2_Terminates == <>(build_result.kind \in {"Ok", "Err"} \/ DeferBoundReached)

----------------------------------------------------------------------------
(* Versions and artifacts (semver, src/util.rs, src/artifact.rs) *)

\* semver::Version; pre and build are "" when empty
Version(major, minor, patch, pre) ==
    [major |-> major, minor |-> minor, patch |-> patch, pre |-> pre, build |-> ""]

\* util.rs 16-24
empty_database_version == Version(0, 0, 0, "")

\* main.rs 43: the version of the tool, written by install
SQIGL_VERSION == Version(0, 1, 0, "")

\* a semver::VersionReq holding one Op::Exact comparator; an Option is a sequence
\* of at most one element
Comparator(major, minor, patch, pre) ==
    [major |-> major, minor |-> minor, patch |-> patch, pre |-> pre]

\* util.rs 38-48: the requirement =0.0.0
from_empty_database == Comparator(0, <<0>>, <<0>>, "")

\* util.rs 51-61: the requirement =a.b of a version a.b.c
from_minor_version(version) ==
    Comparator(version.major, <<version.minor>>, <<>>, version.pre)

\* VersionReq::matches for one exact comparator: the given parts and the
\* pre-release are equal, and a pre-release version is only matched by a
\* comparator that names its major.minor.patch with a pre-release
Matches(req, version) ==
    /\ version.major = req.major
    /\ req.minor # <<>> => version.minor = req.minor[1]
    /\ req.patch # <<>> => version.patch = req.patch[1]
    /\ version.pre = req.pre
    /\ \/ version.pre = ""
       \/ /\ req.minor = <<version.minor>>
          /\ req.patch = <<version.patch>>
          /\ req.pre # ""

\* the decimal digits of the version numbers of the model
Digit(n) == CASE n = 0 -> "0" [] n = 1 -> "1" [] n = 2 -> "2" [] n = 3 -> "3"
              [] n = 4 -> "4" [] n = 5 -> "5" [] n = 6 -> "6" [] n = 7 -> "7"
              [] n = 8 -> "8" [] n = 9 -> "9"
ParseDigit(s) == CHOOSE n \in 0..9 : Digit(n) = s

\* Version::to_string: the text stored in history.version, as a sequence of tokens
VersionToString(v) ==
    <<Digit(v.major), ".", Digit(v.minor), ".", Digit(v.patch)>>
        \o (IF v.pre = "" THEN <<>> ELSE <<"-", v.pre>>)
        \o (IF v.build = "" THEN <<>> ELSE <<"+", v.build>>)

\* str::parse::<Version>
ParseVersion(s) ==
    LET has_pre == Len(s) >= 7 /\ s[6] = "-"
        build_at == IF has_pre THEN 8 ELSE 6
    IN  [major |-> ParseDigit(s[1]), minor |-> ParseDigit(s[3]),
         patch |-> ParseDigit(s[5]),
         pre |-> IF has_pre THEN s[7] ELSE "",
         build |-> IF Len(s) > build_at /\ s[build_at] = "+" THEN s[build_at + 1] ELSE ""]

\* VersionReq::to_string for one exact comparator: the pre-release is written
\* only behind a patch
ReqToString(req) ==
    <<"=", Digit(req.major)>>
        \o (IF req.minor = <<>> THEN <<>>
            ELSE <<".", Digit(req.minor[1])>>
                    \o (IF req.patch = <<>> THEN <<>>
                        ELSE <<".", Digit(req.patch[1])>>
                                \o (IF req.pre = "" THEN <<>> ELSE <<"-", req.pre>>)))

\* str::parse::<VersionReq> of such a text
ParseReq(s) ==
    [major |-> ParseDigit(s[2]),
     minor |-> IF Len(s) >= 4 THEN <<ParseDigit(s[4])>> ELSE <<>>,
     patch |-> IF Len(s) >= 6 THEN <<ParseDigit(s[6])>> ELSE <<>>,
     pre |-> IF Len(s) >= 8 THEN s[8] ELSE ""]

\* text is a sequence of tokens; "LF" is the newline and "SP" a blank
WhiteSpace == {"LF", "SP"}

\* <[u8]>::trim_ascii: the text without its leading and trailing white space
trim_ascii(text) ==
    LET inked == {i \in 1..Len(text) : text[i] \notin WhiteSpace}
    IN  IF inked = {} THEN <<>>
        ELSE SubSeq(text, CHOOSE i \in inked : \A j \in inked : i <= j,
                          CHOOSE i \in inked : \A j \in inked : j <= i)

\* the header with the title as it stands in sqigl.toml
untrimmed_header(title, version) ==
    <<"--", "SP", "[", "SP">> \o title \o <<"SP">>
        \o VersionToString(version) \o <<"SP", "]", "LF", "LF">>

\* build.rs 518-523: "-- [ {title} {version} ]\n\n"
Header(title, version) ==
    <<"--", "SP", "[", "SP">> \o trim_ascii(title) \o <<"SP">>
        \o VersionToString(version) \o <<"SP", "]", "LF", "LF">>

\* the concatenation of a sequence of chunks
RECURSIVE Concat(_)
Concat(chunks) == IF chunks = <<>> THEN <<>> ELSE Head(chunks) \o Concat(Tail(chunks))

\* BuildArtifact (build.rs 477-558): compatible with the empty database only; its
\* stream is a header chunk and one chunk per script
BuildArtifact(title, version, script_bodies) ==
    [kind |-> "Build", from |-> from_empty_database, to |-> version,
     chunks |-> <<Header(<<title>>, version)>> \o script_bodies]

\* MigrationArtifact (migration.rs 45-78): its stream is the one script file
MigrationArtifact(from, to, code) ==
    [kind |-> "Migration", from |-> from, to |-> to, chunks |-> <<code>>]

\* an artifact that takes every version
compatible_any(artifact, version) == TRUE

\* an artifact that is also compatible with the version it produces
compatible_again(artifact, version) ==
    Matches(artifact.from, version) \/ version = artifact.to

\* Artifact::compatible (build.rs 498-502, migration.rs 56-58)
compatible(artifact, version) == Matches(artifact.from, version)

\* the ContentId handed to commit: SHA-256 of the chunks in delivery order, taken
\* to be free of collisions
ContentId(artifact) == [sha256 |-> Concat(artifact.chunks)]

\* the artifacts of the model: the schemas of versions 1.0.0 and 2.0.0 and the
\* migration from the 1.0 line to 2.0.0
Schema1 == BuildArtifact("app", Version(1, 0, 0, ""), <<<<"create table t">>>>)
Schema2 == BuildArtifact("app", Version(2, 0, 0, ""), <<<<"create table t, u">>>>)
Migration12 ==
    MigrationArtifact(from_minor_version(Version(1, 0, 0, "")), Version(2, 0, 0, ""),
                      <<"create table u">>)
Artifacts == {Schema1, Schema2, Migration12}

----------------------------------------------------------------------------
(* The managed database: sqigl's tables and transactions *)

\* a database sqigl is not installed on.  artifact and history hold their rows in
\* pk order (a row's pk is its index); head is 0 when NULL; schema is what the
\* executed chunks made of the user's schema, in execution order
Absent ==
    [installed |-> FALSE, artifact |-> <<>>, history |-> <<>>, head |-> 0,
     sqigl_version |-> <<>>, schema |-> <<>>]

\* sql/schema.sql and sql/initialize_state.sql: create the tables that are missing
\* and seed the singleton state row when there is none
InstallSql(d, sqigl_version) ==
    IF d.installed THEN d
    ELSE [d EXCEPT !.installed = TRUE, !.sqigl_version = sqigl_version]

\* sql/select_state.sql: the state row joined with the history row head points at
SelectState(d) ==
    [project_version |-> IF d.head = 0 THEN <<>> ELSE <<d.history[d.head].version>>,
     sqigl_version |-> d.sqigl_version]

\* TryFrom<&Row> for SqiglState (sqlite/mod.rs 209-226)
RowToState(row) ==
    [project_version |-> IF row.project_version = <<>> THEN empty_database_version
                         ELSE ParseVersion(row.project_version[1]),
     sqigl_version |-> ParseVersion(row.sqigl_version)]

NoState == [project_version |-> empty_database_version,
            sqigl_version |-> empty_database_version]

\* get_state: the query fails when the tables are missing
get_state(d) ==
    IF d.installed THEN [ok |-> TRUE, state |-> RowToState(SelectState(d))]
    ELSE [ok |-> FALSE, state |-> NoState]

\* the writes of a transaction that are not committed yet
NoTx == [schema |-> <<>>, artifact |-> <<>>, history |-> <<>>, head |-> 0]

\* what the statements of a transaction read: the committed rows and its own writes
View(d, t) ==
    [d EXCEPT !.schema = @ \o t.schema,
              !.artifact = @ \o t.artifact,
              !.history = @ \o t.history,
              !.head = IF t.head = 0 THEN @ ELSE t.head]

\* Consumer::accept: batch_execute / execute_batch of one chunk
Execute(t, chunk) == [t EXCEPT !.schema = Append(@, chunk)]

\* the pk of the artifact row with this content id, 0 when there is none
ArtifactPk(v, id) ==
    LET hits == {k \in 1..Len(v.artifact) : v.artifact[k] = id}
    IN  IF hits = {} THEN 0 ELSE CHOOSE k \in hits : TRUE

\* sql/get_artifact_by_id.sql: insert the row unless the id is there already
UpsertArtifact(d, t, id) ==
    IF ArtifactPk(View(d, t), id) # 0 THEN t ELSE [t EXCEPT !.artifact = Append(@, id)]

\* a commit that takes the chain to start anew instead of reading head
SelectHeadNull(v) == 0

\* "select head from sqigl_internal.state"
SelectHead(v) == v.head

\* sql/append_history.sql: insert a history row, its pk is the next free one
AppendHistory(t, prev_pk, artifact_pk, version) ==
    [t EXCEPT !.history =
        Append(@, [prev |-> prev_pk, artifact |-> artifact_pk, version |-> version])]

\* a commit that leaves head where it was
UpdateHeadSkipped(t, head_pk) == t

\* "update sqigl_internal.state set head = $1"
UpdateHead(t, head_pk) == [t EXCEPT !.head = head_pk]

\* the first n of the four bookkeeping statements of apply's Consumer::commit
\* (postgres/mod.rs 334-360, sqlite/mod.rs 90-111)
Bookkeeping(d, t, artifact, n) ==
    LET t1 == IF n >= 1 THEN UpsertArtifact(d, t, ContentId(artifact)) ELSE t
        artifact_pk == ArtifactPk(View(d, t1), ContentId(artifact))
        prev_pk == SelectHead(View(d, t1))
        t3 == IF n >= 3
              THEN AppendHistory(t1, prev_pk, artifact_pk, VersionToString(artifact.to))
              ELSE t1
        head_pk == Len(View(d, t3).history)
    IN  IF n >= 4 THEN UpdateHead(t3, head_pk) ELSE t3

\* tx.commit()
Commit(d, t) == View(d, t)

\* a rollback that keeps the writes of the transaction
RollbackKeeps(d, t) == View(d, t)

\* a rollback that resets head
RollbackClearsHead(d, t) == [d EXCEPT !.head = 0]

\* tx.rollback(), and the drop of a transaction that was not committed
Rollback(d, t) == d

----------------------------------------------------------------------------
(* Engine instances running the backend protocol against one database *)

\* the engine instances (separate invocations of the tool, one connection each)
Instances == {"one", "two"}

Backends == {"postgres", "sqlite"}

\* the calls that end in Backend::apply
Applies == {"apply_artifact", "apply", "apply_version"}

NoArtifact ==
    [kind |-> "none", from |-> from_empty_database, to |-> empty_database_version,
     chunks |-> <<>>]

\* what a call returned: Ok with the SqiglState, or an error
Result(kind, state) == [kind |-> kind, state |-> state]
NoResult == Result("none", NoState)
DatabaseError == Result("DatabaseError", NoState)

OthersHold(i, levels) == \E j \in Instances \ {i} : lock[j] \in levels

\* a lock that is granted whoever holds it
LockAlwaysFree(i) == TRUE

\* the lock apply asks for can be granted to instance i: the row lock of
\* "select from sqigl_internal.state for update" (postgres/mod.rs 376) while no
\* other transaction holds it, the lock of a TransactionBehavior::Exclusive begin
\* (sqlite/mod.rs 123) while no other connection holds any lock on the file
LockFree(i) ==
    IF backend = "postgres" THEN ~OthersHold(i, {"row"})
    ELSE ~OthersHold(i, {"shared", "reserved", "exclusive"})

\* SQLite refuses with SQLITE_BUSY: a read while another connection holds the
\* exclusive lock, a write while another one holds the reserved or exclusive lock,
\* a commit while another one holds any lock
ReadBusy(i) == backend = "sqlite" /\ OthersHold(i, {"exclusive"})
WriteBusy(i) == backend = "sqlite" /\ OthersHold(i, {"reserved", "exclusive"})
CommitBusy(i) == backend = "sqlite" /\ OthersHold(i, {"shared", "reserved", "exclusive"})

\* an install that creates the tables and the state row anew
install_anew(d, busy) ==
    IF busy THEN [db |-> d, res |-> DatabaseError]
    ELSE [db |-> InstallSql(Absent, VersionToString(SQIGL_VERSION)),
          res |-> Result("Ok", get_state(InstallSql(Absent, VersionToString(SQIGL_VERSION))).state)]

\* Backend::install (postgres/mod.rs 289-297, sqlite/mod.rs 48-58) on database d
install(d, busy) ==
    IF busy THEN [db |-> d, res |-> DatabaseError]
    ELSE [db |-> InstallSql(d, VersionToString(SQIGL_VERSION)),
          res |-> Result("Ok", get_state(InstallSql(d, VersionToString(SQIGL_VERSION))).state)]

\* an open that reports a failed get_state instead of installing
open_without_install(d, read_busy, commit_busy) ==
    IF ~read_busy /\ get_state(d).ok
    THEN [db |-> d, res |-> Result("Ok", get_state(d).state), installs |-> 0]
    ELSE [db |-> d, res |-> DatabaseError, installs |-> 0]

\* Backend::open (postgres/mod.rs 298-314, sqlite/mod.rs 59-67): any failure of
\* get_state is answered by install; `installs` counts the calls of install
open(d, read_busy, commit_busy) ==
    IF ~read_busy /\ get_state(d).ok
    THEN [db |-> d, res |-> Result("Ok", get_state(d).state), installs |-> 0]
    ELSE [db |-> install(d, read_busy \/ commit_busy).db,
          res |-> install(d, read_busy \/ commit_busy).res,
          installs |-> 1]

\* the apply calls that took the state-row lock, in that order, without those a
\* failing statement ended; `inst` names the holder while the lock is held
Logged(i, outcome) ==
    IF outcome = "failed" THEN SelectSeq(lock_log, LAMBDA e : e.inst # i)
    ELSE [k \in 1..Len(lock_log) |->
            IF lock_log[k].inst = i THEN [lock_log[k] EXCEPT !.inst = "none"]
            ELSE lock_log[k]]

\* the call of instance i returns res; a transaction it still holds is dropped
Return(i, res) ==
    /\ pc' = [pc EXCEPT ![i] = "idle"]
    /\ result' = [result EXCEPT ![i] = res]
    /\ tx' = [tx EXCEPT ![i] = NoTx]
    /\ lock' = [lock EXCEPT ![i] = "none"]
    /\ art' = [art EXCEPT ![i] = NoArtifact]
    /\ seen' = [seen EXCEPT ![i] = NoState]

\* instance i enters a call
Enter(i, name) ==
    /\ pc[i] = "idle"
    /\ call' = [call EXCEPT ![i] = name]
    /\ ran' = [ran EXCEPT ![i] = <<>>]

\* the call goes on to position `at` with its artifact
Continue(i, at, artifact) ==
    /\ pc' = [pc EXCEPT ![i] = at]
    /\ art' = [art EXCEPT ![i] = artifact]
    /\ UNCHANGED <<result, tx, lock, seen>>

\* `sqigl database install`: Backend::install
Install(i) ==
    /\ Enter(i, "install")
    /\ \E r \in {install(db, CommitBusy(i))} :
        /\ db' = r.db
        /\ Return(i, r.res)
    /\ UNCHANGED <<backend, lock_log, last_applied>>
    /\ UNCHANGED <<buildVars, toolVars>>

\* Backend::open
Open(i) ==
    /\ Enter(i, "open")
    /\ \E r \in {open(db, ReadBusy(i), CommitBusy(i))} :
        /\ db' = r.db
        /\ Return(i, r.res)
    /\ UNCHANGED <<backend, lock_log, last_applied>>
    /\ UNCHANGED <<buildVars, toolVars>>

\* the apply calls begun so far that took, or may still take, the state-row lock
AppliesBegun ==
    Len(lock_log) + Cardinality({j \in Instances : call[j] \in Applies /\ pc[j] = "begin"})

\* apply_artifact (actions/apply.rs 16-32) up to its call of Backend::apply: open()
\* and the compatibility pre-check
ApplyArtifact(i, artifact) ==
    /\ AppliesBegun < MaxApplies
    /\ Enter(i, "apply_artifact")
    /\ \E r \in {open(db, ReadBusy(i), CommitBusy(i))} :
        /\ db' = r.db
        /\ IF r.res.kind # "Ok" THEN Return(i, r.res)
           ELSE IF ~compatible(artifact, r.res.state.project_version)
           THEN Return(i, Result("NotCompatible", NoState))
           ELSE Continue(i, "begin", artifact)
    /\ UNCHANGED <<backend, lock_log, last_applied>>
    /\ UNCHANGED <<buildVars, toolVars>>

\* Backend::apply called without the pre-check
Apply(i, artifact) ==
    /\ AppliesBegun < MaxApplies
    /\ Enter(i, "apply")
    /\ Continue(i, "begin", artifact)
    /\ UNCHANGED <<backend, db, lock_log, last_applied>>
    /\ UNCHANGED <<buildVars, toolVars>>

\* Backend::check up to its transaction (postgres/mod.rs 436, sqlite/mod.rs 144):
\* open(), which installs when get_state fails.  The transaction it then begins
\* (open_transaction, 456; Connection::transaction, 167) takes no lock
Check(i, artifact) ==
    /\ Enter(i, "check")
    /\ \E r \in {open(db, ReadBusy(i), CommitBusy(i))} :
        /\ db' = r.db
        /\ IF r.res.kind # "Ok" THEN Return(i, r.res)
           ELSE Continue(i, "read", artifact)
    /\ UNCHANGED <<backend, lock_log, last_applied>>
    /\ UNCHANGED <<buildVars, toolVars>>

\* apply: the transaction is opened and the lock taken (postgres/mod.rs 375-376,
\* sqlite/mod.rs 123).  On Postgres the statement fails when the table is missing
Lock(i) ==
    /\ pc[i] = "begin"
    /\ call[i] \in Applies
    /\ LockFree(i)
    /\ IF backend = "postgres" /\ ~db.installed
       THEN /\ Return(i, DatabaseError)
            /\ UNCHANGED lock_log
       ELSE /\ lock' = [lock EXCEPT ![i] = IF backend = "postgres" THEN "row"
                                           ELSE "exclusive"]
            /\ pc' = [pc EXCEPT ![i] = "read"]
            /\ lock_log' = Append(lock_log, [inst |-> i, artifact |-> art[i]])
            /\ UNCHANGED <<result, tx, art, seen>>
    /\ UNCHANGED <<backend, db, call, ran, last_applied>>
    /\ UNCHANGED <<buildVars, toolVars>>

\* apply: the lock is not granted in time (SQLite's busy timeout, a configured
\* Postgres statement or transaction timeout) and the statement fails
LockTimesOut(i) ==
    /\ pc[i] = "begin"
    /\ call[i] \in Applies
    /\ ~LockFree(i)
    /\ Return(i, DatabaseError)
    /\ UNCHANGED <<backend, db, call, ran, lock_log, last_applied>>
    /\ UNCHANGED <<buildVars, toolVars>>

\* apply and check: get_state inside the transaction and the compatibility check
\* (postgres/mod.rs 377-381, 457-461; sqlite/mod.rs 124-128, 168-172).  The read
\* of check's deferred SQLite transaction takes the shared lock
ReadState(i) ==
    /\ pc[i] = "read"
    /\ \E g \in {get_state(View(db, tx[i]))} :
        IF ReadBusy(i) \/ ~g.ok
        THEN /\ Return(i, DatabaseError)
             /\ db' = Rollback(db, tx[i])
             /\ lock_log' = Logged(i, "failed")
        ELSE IF ~compatible(art[i], g.state.project_version)
        THEN /\ Return(i, Result("Incompatible", NoState))
             /\ db' = Rollback(db, tx[i])
             /\ lock_log' = Logged(i, "done")
        ELSE /\ seen' = [seen EXCEPT ![i] = g.state]
             /\ pc' = [pc EXCEPT ![i] = IF art[i].chunks = <<>> THEN "commit"
                                         ELSE "accept"]
             /\ lock' = [lock EXCEPT ![i] = IF backend = "sqlite" /\ call[i] = "check"
                                             THEN "shared" ELSE @]
             /\ UNCHANGED <<db, result, tx, art, lock_log>>
    /\ UNCHANGED <<backend, call, ran, last_applied>>
    /\ UNCHANGED <<buildVars, toolVars>>

\* Consumer::accept (postgres/mod.rs 328-332, 442-446; sqlite/mod.rs 81-88,
\* 151-158): the next chunk is executed inside the transaction.  The write of
\* check's deferred SQLite transaction takes the reserved lock
Accept(i) ==
    /\ pc[i] = "accept"
    /\ ~(call[i] = "check" /\ WriteBusy(i))
    /\ \E chunk \in {art[i].chunks[Len(ran[i]) + 1]} :
        /\ tx' = [tx EXCEPT ![i] = Execute(@, chunk)]
        /\ ran' = [ran EXCEPT ![i] = Append(@, chunk)]
    /\ pc' = [pc EXCEPT ![i] = IF Len(ran[i]) + 1 = Len(art[i].chunks) THEN "commit"
                                ELSE "accept"]
    /\ lock' = [lock EXCEPT ![i] = IF backend = "sqlite" /\ call[i] = "check"
                                    THEN "reserved" ELSE @]
    /\ UNCHANGED <<backend, db, call, art, seen, result, lock_log, last_applied>>
    /\ UNCHANGED <<buildVars, toolVars>>

\* the next chunk fails (an SQL error, SQLITE_BUSY, or an error while the artifact
\* reads its script): `?` returns the error and the transaction is dropped
AcceptFails(i) ==
    /\ pc[i] = "accept"
    /\ db' = Rollback(db, tx[i])
    /\ Return(i, DatabaseError)
    /\ lock_log' = Logged(i, "failed")
    /\ UNCHANGED <<backend, call, ran, last_applied>>
    /\ UNCHANGED <<buildVars, toolVars>>

\* apply's Consumer::commit (postgres/mod.rs 334-364, sqlite/mod.rs 90-115): the
\* four bookkeeping statements and tx.commit().  Postgres returns the state read
\* before the scripts (388); SQLite reads it again (134-135)
CommitApply(i) ==
    /\ pc[i] = "commit"
    /\ call[i] \in Applies
    /\ db' = Commit(db, Bookkeeping(db, tx[i], art[i], 4))
    /\ lock_log' = Logged(i, "done")
    /\ last_applied' = art[i]
    /\ IF backend = "postgres"
       THEN Return(i, Result("Ok", seen[i]))
       ELSE /\ pc' = [pc EXCEPT ![i] = "state"]
            /\ tx' = [tx EXCEPT ![i] = NoTx]
            /\ lock' = [lock EXCEPT ![i] = "none"]
            /\ UNCHANGED <<result, art, seen>>
    /\ UNCHANGED <<backend, call, ran>>
    /\ UNCHANGED <<buildVars, toolVars>>

\* a bookkeeping statement fails after n of them ran, or tx.commit() does (n = 4)
CommitFails(i) ==
    /\ pc[i] = "commit"
    /\ call[i] \in Applies
    /\ \E n \in 0..4 : db' = Rollback(db, Bookkeeping(db, tx[i], art[i], n))
    /\ Return(i, DatabaseError)
    /\ lock_log' = Logged(i, "failed")
    /\ UNCHANGED <<backend, call, ran, last_applied>>
    /\ UNCHANGED <<buildVars, toolVars>>

\* SQLite's apply after its commit: get_state on the connection (sqlite/mod.rs
\* 134-135)
ReturnState(i) ==
    /\ pc[i] = "state"
    /\ Return(i, IF ReadBusy(i) THEN DatabaseError ELSE Result("Ok", get_state(db).state))
    /\ UNCHANGED <<backend, db, call, ran, lock_log, last_applied>>
    /\ UNCHANGED <<buildVars, toolVars>>

\* a check whose consumer commits
check_commit_commits(d, t) == Commit(d, t)

\* check's Consumer::commit (postgres/mod.rs 449-453, sqlite/mod.rs 160-164)
check_commit(d, t) == Rollback(d, t)

\* check: after the last chunk the transaction is rolled back; when the rollback
\* statement fails the transaction is dropped all the same
CheckCommit(i) ==
    /\ pc[i] = "commit"
    /\ call[i] = "check"
    /\ db' = check_commit(db, tx[i])
    /\ \E ok \in BOOLEAN : Return(i, IF ok THEN Result("Ok", NoState) ELSE DatabaseError)
    /\ UNCHANGED <<backend, call, ran, lock_log, last_applied>>
    /\ UNCHANGED <<buildVars, toolVars>>

\* no project is being built while the backend protocol runs
NoBuild ==
    /\ tree = NoSourceTree
    /\ manifests = ManifestsOf({}, <<>>)
    /\ dir_order = CHOOSE o \in NoSourceTreeOrders : TRUE
    /\ debug_assertions = "either"
    /\ depend_stack = <<>>
    /\ defer_stack = <<>>
    /\ completed_tasks = {}
    /\ scripts = <<>>
    /\ build_result = [kind |-> "init", scripts |-> <<>>, err |-> NoError]

\* a database sqigl has not touched yet, and two idle engine instances
InitDb ==
    /\ NoBuild
    /\ backend \in Backends
    /\ db = Absent
    /\ lock = [i \in Instances |-> "none"]
    /\ call = [i \in Instances |-> "none"]
    /\ pc = [i \in Instances |-> "idle"]
    /\ art = [i \in Instances |-> NoArtifact]
    /\ tx = [i \in Instances |-> NoTx]
    /\ ran = [i \in Instances |-> <<>>]
    /\ seen = [i \in Instances |-> NoState]
    /\ result = [i \in Instances |-> NoResult]
    /\ lock_log = <<>>
    /\ last_applied = NoArtifact
    /\ NoTooling

NextDb ==
    \E i \in Instances :
        \/ Install(i)
        \/ Open(i)
        \/ \E artifact \in Artifacts : ApplyArtifact(i, artifact)
        \/ \E artifact \in Artifacts : Apply(i, artifact)
        \/ \E artifact \in Artifacts : Check(i, artifact)
        \/ Lock(i)
        \/ LockTimesOut(i)
        \/ ReadState(i)
        \/ Accept(i)
        \/ AcceptFails(i)
        \/ CommitApply(i)
        \/ CommitFails(i)
        \/ ReturnState(i)
        \/ CheckCommit(i)

SpecDb == InitDb /\ [][NextDb]_vars

----------------------------------------------------------------------------
(* Properties of the backend protocol *)

\* an instance inside Backend::apply, between taking the lock and the end of its
\* transaction
HoldsApplyLock(i) == call[i] \in Applies /\ pc[i] \in {"read", "accept", "commit"}

\* the database left by apply(artifact) running alone on database d with no
\* statement failing (steps 3-6 of the protocol)
SerialApply(d, artifact) ==
    IF ~compatible(artifact, get_state(d).state.project_version) THEN d
    ELSE LET id == ContentId(artifact)
             rows == IF ArtifactPk(d, id) = 0 THEN Append(d.artifact, id) ELSE d.artifact
         IN  [d EXCEPT !.schema = @ \o artifact.chunks,
                       !.artifact = rows,
                       !.history = Append(@, [prev |-> d.head,
                                              artifact |-> ArtifactPk([artifact |-> rows], id),
                                              version |-> VersionToString(artifact.to)]),
                       !.head = Len(d.history) + 1]

RECURSIVE SerialRun(_, _)
SerialRun(d, log) ==
    IF log = <<>> THEN d ELSE SerialRun(SerialApply(d, Head(log).artifact), Tail(log))

\* the applies of the log whose transaction has ended
Ended(log) == SelectSeq(log, LAMBDA e : e.inst = "none")

\* C3: under every interleaving of apply calls of separate engine instances, no
\* apply reads the state row or executes a chunk while another apply is between
\* its lock acquisition and its commit or rollback, and the committed database
\* equals the one left by running the applies one after another in the order
\* they acquired the lock.
C3_AppliesSerialize ==
    /\ \A i \in Instances : \A j \in Instances \ {i} :
            ~(HoldsApplyLock(i) /\ HoldsApplyLock(j))
    /\ db.installed =>
            db = SerialRun(InstallSql(Absent, VersionToString(SQIGL_VERSION)),
                           Ended(lock_log))

\* an apply has executed a chunk under the lock while the apply of the other
\* instance is waiting for the lock
C3_Witness ==
    \E i \in Instances : \E j \in Instances \ {i} :
        /\ HoldsApplyLock(i)
        /\ ran[i] # <<>>
        /\ call[j] \in Applies
        /\ pc[j] = "begin"
        /\ ~LockFree(j)

\* the artifact a history row records, and the version of the row before it
RowArtifact(d, k) ==
    CHOOSE a \in Artifacts : ContentId(a) = d.artifact[d.history[k].artifact]
PrevVersion(d, k) ==
    IF d.history[k].prev = 0 THEN empty_database_version
    ELSE ParseVersion(d.history[d.history[k].prev].version)

\* C4: an apply goes on to its scripts and its commit only when its artifact is
\* compatible with the project_version it read after acquiring the lock, which is
\* still the committed one; so the artifact of every history row was compatible
\* with the version of the row's prev entry (0.0.0 when prev is null).
C4_CompatibleUnderLock ==
    /\ \A i \in Instances :
            (call[i] \in Applies /\ pc[i] \in {"accept", "commit"}) =>
                /\ seen[i] = get_state(db).state
                /\ Matches(art[i].from, seen[i].project_version)
    /\ \A k \in 1..Len(db.history) :
            Matches(RowArtifact(db, k).from, PrevVersion(db, k))

\* apply_artifact passed its pre-check and Backend::apply then found the artifact
\* incompatible: another instance committed in between
C4_Witness ==
    \E i \in Instances :
        /\ call[i] = "apply_artifact"
        /\ pc[i] = "idle"
        /\ result[i].kind = "Incompatible"
        /\ db.history # <<>>

\* C5: after an apply has committed artifact A, an open() that returns Ok
\* reports project_version = A.version().
C5_OpenReportsAppliedVersion ==
    [][\A i \in Instances :
        (Open(i) /\ result'[i].kind = "Ok" /\ last_applied # NoArtifact)
            => result'[i].state.project_version = last_applied.to]_vars

\* an open() returned the version of the artifact applied before it
C5_Witness ==
    \E i \in Instances :
        /\ call[i] = "open"
        /\ pc[i] = "idle"
        /\ result[i].kind = "Ok"
        /\ last_applied = Migration12
        /\ result[i].state.project_version = Migration12.to

\* C6: when apply fails with Incompatible no chunk was executed and the step
\* leaves project_version, head, the history rows and the artifact rows as they
\* were.
C6_IncompatibleLeavesDatabase ==
    /\ [](\A i \in Instances :
            (pc[i] = "idle" /\ result[i].kind = "Incompatible") => ran[i] = <<>>)
    /\ [][\A i \in Instances :
            (ReadState(i) /\ result'[i].kind = "Incompatible")
                => (db' = db /\ tx[i] = NoTx)]_vars

\* the schema of 2.0.0, which requires =0.0.0, was refused on a database at 1.0.0
C6_Witness ==
    \E i \in Instances : \E k \in 1..Len(lock_log) :
        /\ call[i] \in Applies
        /\ result[i].kind = "Incompatible"
        /\ lock_log[k] = [inst |-> "none", artifact |-> Schema2]
        /\ get_state(db).state.project_version = Schema1.to

\* the chunks of the artifacts of history rows 1..n, in row order
RECURSIVE ChunksOfHistory(_, _)
ChunksOfHistory(d, n) ==
    IF n = 0 THEN <<>> ELSE ChunksOfHistory(d, n - 1) \o RowArtifact(d, n).chunks

\* the schema changes that are visible are those of the history entries
SchemaMatchesHistory(d) ==
    /\ \A k \in 1..Len(d.history) : d.history[k].artifact \in 1..Len(d.artifact)
    /\ d.schema = ChunksOfHistory(d, Len(d.history))
    /\ d.head = Len(d.history)

\* C7: when a chunk or a bookkeeping statement of apply fails, the transaction is
\* rolled back whole: the step leaves the committed database as it was, with none
\* of the chunks, the artifact row, the history row or the head update; in no
\* state is a schema change visible without its history entry or the reverse.
C7_FailureRollsBack ==
    /\ [](SchemaMatchesHistory(db))
    /\ [][\A i \in Instances :
            (call[i] \in Applies /\ (AcceptFails(i) \/ CommitFails(i)))
                => (db' = db /\ tx'[i] = NoTx /\ lock'[i] = "none")]_vars

\* an apply failed after it had executed all its chunks, on a database that an
\* earlier apply had committed to
C7_Witness ==
    \E i \in Instances :
        /\ call[i] \in Applies
        /\ pc[i] = "idle"
        /\ result[i] = DatabaseError
        /\ ran[i] = Migration12.chunks
        /\ db.schema = Schema1.chunks

\* following prev from row k reaches NULL within `fuel` steps
RECURSIVE EndsAtNull(_, _, _)
EndsAtNull(d, k, fuel) ==
    IF k = 0 THEN TRUE
    ELSE IF fuel = 0 \/ k \notin 1..Len(d.history) THEN FALSE
    ELSE EndsAtNull(d, d.history[k].prev, fuel - 1)

\* C8: the history chain from state.head through prev is acyclic and ends at a
\* null prev, head is the most recently appended row, every history row
\* references an existing artifact row, and each committing apply appends exactly
\* one history row whose prev is the previous head.
C8_HistoryChain ==
    /\ [](/\ EndsAtNull(db, db.head, Len(db.history))
          /\ db.head = Len(db.history)
          /\ \A k \in 1..Len(db.history) :
                db.history[k].artifact \in 1..Len(db.artifact))
    /\ [][\A i \in Instances :
            CommitApply(i) =>
                /\ db'.history = Append(db.history, db'.history[Len(db'.history)])
                /\ db'.history[Len(db'.history)].prev = db.head
                /\ db'.head = Len(db'.history)]_vars

\* two applies committed one after the other: two chained history rows
C8_Witness ==
    /\ Len(db.history) = 2
    /\ db.head = 2
    /\ db.history[2].prev = 1
    /\ db.history[1].prev = 0
    /\ db.history[2].artifact # db.history[1].artifact

\* the steps of a check call after its open()
CheckStep(i) ==
    call[i] = "check" /\ (ReadState(i) \/ Accept(i) \/ AcceptFails(i) \/ CheckCommit(i))

\* C9: on an installed database no step of check(A), whatever it returns, changes
\* the committed database: project_version, head, the history rows, the artifact
\* rows and the schema stay as they were, the transaction being rolled back.
C9_CheckLeavesDatabase ==
    [][\A i \in Instances :
        (CheckStep(i) \/ (db.installed /\ \E a \in Artifacts : Check(i, a)))
            => db' = db]_vars

\* a check ran all chunks of the schema of 1.0.0 and returned Ok; the database is
\* still empty
C9_Witness ==
    \E i \in Instances :
        /\ call[i] = "check"
        /\ pc[i] = "idle"
        /\ result[i].kind = "Ok"
        /\ ran[i] = Schema1.chunks
        /\ db = InstallSql(Absent, VersionToString(SQIGL_VERSION))

\* C10: check takes the same serializing lock as apply before it reads the state:
\* while an apply holds the lock no check has read the state or runs chunks.
C10_CheckTakesLock ==
    \A i \in Instances : \A j \in Instances \ {i} :
        HoldsApplyLock(i) => ~(call[j] = "check" /\ pc[j] \in {"accept", "commit"})

----------------------------------------------------------------------------
(* The schema artifact applied twice *)

\* Backend::apply was called twice with the schema of 1.0.0 and both calls ended
\* without a failing statement
Schema1Twice ==
    lock_log = <<[inst |-> "none", artifact |-> Schema1],
                 [inst |-> "none", artifact |-> Schema1]>>

\* C11 as stated: after the schema artifact of 1.0.0 was applied twice to a fresh
\* database, project_version is 1.0.0, the artifact table has one row with the
\* artifact's content id and history has two rows chained by prev.
C11_TwoHistoryRows ==
    Schema1Twice =>
        /\ get_state(db).state.project_version = Schema1.to
        /\ db.artifact = <<ContentId(Schema1)>>
        /\ Len(db.history) = 2
        /\ db.history[2].prev = 1

\* C11: after the schema artifact of 1.0.0 was applied twice to a fresh database,
\* project_version is 1.0.0, the artifact table has one row with the artifact's
\* content id and history has one row, whose prev is null: the second apply
\* fails with Incompatible, because a schema artifact requires =0.0.0.
C11_SecondSchemaApplyRefused ==
    /\ [](Schema1Twice =>
            /\ get_state(db).state.project_version = Schema1.to
            /\ db.artifact = <<ContentId(Schema1)>>
            /\ Len(db.history) = 1
            /\ db.history[1].prev = 0
            /\ db.head = 1)
    /\ [][\A i \in Instances :
            (call[i] \in Applies /\ ReadState(i) /\ Schema1Twice')
                => result'[i].kind = "Incompatible"]_vars

\* the second apply of the schema of 1.0.0 has returned
C11_Witness ==
    /\ Schema1Twice
    /\ \E i \in Instances :
        /\ call[i] = "apply"
        /\ pc[i] = "idle"
        /\ result[i].kind = "Incompatible"

----------------------------------------------------------------------------
(* Schema artifacts of the versions a project manifest can carry *)

\* a version with build metadata, as in 0.0.0+b1
WithBuild(version, build) == [version EXCEPT !.build = build]

\* semver's Ord for Prerelease and BuildMetadata, for at most one non-empty value
\* of each: a release is greater than its pre-releases, and an empty build
\* metadata is less than a non-empty one
PreRank(pre) == IF pre = "" THEN 1 ELSE 0
BuildRank(build) == IF build = "" THEN 0 ELSE 1

\* Version's derived Ord: major, minor, patch, pre, build in that order
VersionKey(v) == <<v.major, v.minor, v.patch, PreRank(v.pre), BuildRank(v.build)>>
VersionLeq(a, b) ==
    \/ VersionKey(a) = VersionKey(b)
    \/ \E k \in 1..5 :
        /\ \A j \in 1..(k - 1) : VersionKey(a)[j] = VersionKey(b)[j]
        /\ VersionKey(a)[k] < VersionKey(b)[k]

\* open_project (manifest/project.rs 91-93): a manifest whose version is not
\* above 0.0.0 is refused with InvalidVersion
open_project(version) == ~VersionLeq(version, empty_database_version)

\* the versions written into the project manifests of the model
ManifestVersions ==
    {empty_database_version, Version(0, 0, 0, "rc"),
     WithBuild(empty_database_version, "b1"), Version(1, 0, 0, "")}

\* build_project's artifact (build.rs 340, 396, 484-489) for each manifest that
\* open_project accepts
ProjectArtifacts ==
    {BuildArtifact("app", v, <<<<"create table t">>>>) :
        v \in {m \in ManifestVersions : open_project(m)}}

\* the backend protocol run with the artifacts built from the projects
NextProject ==
    \E i \in Instances :
        \/ Install(i)
        \/ Open(i)
        \/ \E artifact \in ProjectArtifacts : ApplyArtifact(i, artifact)
        \/ \E artifact \in ProjectArtifacts : Apply(i, artifact)
        \/ \E artifact \in ProjectArtifacts : Check(i, artifact)
        \/ Lock(i)
        \/ LockTimesOut(i)
        \/ ReadState(i)
        \/ Accept(i)
        \/ AcceptFails(i)
        \/ CommitApply(i)
        \/ CommitFails(i)
        \/ ReturnState(i)
        \/ CheckCommit(i)

SpecProject == InitDb /\ [][NextProject]_vars

\* C12: a Build artifact is compatible exactly with project_version 0.0.0: apply
\* or check of a Build artifact goes on to its chunks only on a database with no
\* history entry, and on a database with a history entry it returns Incompatible
\* (or the error of a failed read).
C12_BuildOnlyOnEmpty ==
    [][\A i \in Instances :
        (ReadState(i) /\ art[i].kind = "Build") =>
            /\ pc'[i] \in {"accept", "commit"} => db.history = <<>>
            /\ db.history # <<>> => result'[i].kind \in {"Incompatible", DatabaseError.kind}]_vars

----------------------------------------------------------------------------
(* install and open *)

C14_OpenInstallsOnlyWhenAbsent ==
    [][\A i \in Instances :
        Open(i) =>
            \E r \in {open(db, ReadBusy(i), CommitBusy(i))} :
                /\ r.installs <= 1
                /\ r.installs = 1 => ~db.installed
                /\ r.installs = 0 => (db' = db /\ result'[i] = Result("Ok", get_state(db).state))
                /\ result'[i] = r.res]_vars

----------------------------------------------------------------------------
(* The same project built twice *)

\* build_project is called again on the same source tree and manifests, after a
\* run that returned a script list; read_dir lists the directories in whatever
\* order the file system has this time
Rebuild ==
    /\ build_result.kind = "Ok"
    /\ earlier = NoEarlier
    /\ earlier' = [kind |-> "Ok", scripts |-> build_result.scripts]
    /\ dir_order' \in DirOrders(tree)
    /\ depend_stack' = <<>>
    /\ defer_stack' = <<>>
    /\ completed_tasks' = {}
    /\ scripts' = <<>>
    /\ build_result' = [kind |-> "init", scripts |-> <<>>, err |-> NoError]
    /\ UNCHANGED <<tree, manifests, debug_assertions, stream, store>>
    /\ UNCHANGED dbVars

\* the full tree under the manifest sets with at most one declaration
InitTwoBuilds ==
    /\ InitBuild
    /\ tree = FullTree
    /\ \E decls \in {l \in FullTreeDeclLists : Len(l) <= 1} :
            manifests = ManifestsOf(FullTreeModules, decls)

NextTwoBuilds ==
    \/ StartBuild
    \/ ProcessModule
    \/ ProcessScript
    \/ AssertPanic
    \/ AssertCompiledOut
    \/ FinishBuild
    \/ Rebuild

SpecTwoBuilds == InitTwoBuilds /\ [][NextTwoBuilds]_vars

\* C17: two builds of the same source tree and manifests return the same script
\* order (and so stream the same bytes and content id), whatever order the file
\* system lists the directory entries in.
C17_SameOrderEveryRun ==
    (earlier.kind = "Ok" /\ build_result.kind = "Ok")
        => build_result.scripts = earlier.scripts

----------------------------------------------------------------------------
(* Dependency cycles *)

\* build_project returned BuildError::DependencyCycle
CycleReported == build_result.kind = "Err" /\ build_result.err.kind = "DependencyCycle"

\* C18 as stated: the cycle_path of a DependencyCycle is a slice of the dependency
\* stack up to its top that begins and ends at the same task key.
C18_CyclePathClosed ==
    CycleReported =>
        /\ build_result.err.cycle_path # <<>>
        /\ Last(build_result.err.cycle_path) = Last(depend_stack).path
        /\ Head(build_result.err.cycle_path) = Last(build_result.err.cycle_path)

\* C18: when build_project fails with DependencyCycle, cycle_path is the slice of
\* the dependency stack from the first occurrence of the task whose push was
\* refused to the top: it begins at the refused task and ends at the task on top
\* of the stack, whose dependency closes the cycle, and the refused task is not
\* repeated at the end (first and last are equal only for a self-dependency).
C18_CyclePathIsStackSlice ==
    /\ [](CycleReported =>
            \E start \in 1..Len(depend_stack) :
                /\ \A j \in 1..(start - 1) :
                        depend_stack[j].path # depend_stack[start].path
                /\ build_result.err.cycle_path =
                        [k \in 1..(Len(depend_stack) - start + 1) |->
                            depend_stack[start + k - 1].path]
                /\ (Head(build_result.err.cycle_path) = Last(build_result.err.cycle_path))
                        <=> start = Len(depend_stack))
    /\ [][CycleReported' =>
            /\ Processed.op \in {"push_module", "push_script"}
            /\ Head(build_result'.err.cycle_path) = Processed.path
            /\ Last(build_result'.err.cycle_path) = Top.path
            /\ depend_stack' = Scheduled.stack]_vars

\* a cycle through two or more tasks was reported
C18_Witness ==
    /\ CycleReported
    /\ Len(build_result.err.cycle_path) >= 2

\* the sql files of a module
ScriptsOf(t, m) == {f \in t.files : Parent(f) = m /\ Extension(f) = SQL_EXTENSION}

\* the dependencies the manifests declare, as edges between tasks: a module on the
\* module of each entry of module.dependencies, a module on the other module a
\* dependency of one of its scripts names, a script on the sibling script it names
DeclaredEdges(t, mans) ==
    UNION {{<<m, dep_module_path(t, c.path)>> :
                c \in {r \in {canonicalize_dep_path(t, dp, m) :
                                  dp \in {(mans[m].dependencies \o AllScriptDeps(mans[m].scripts))[d] :
                                            d \in 1..Len(mans[m].dependencies
                                                           \o AllScriptDeps(mans[m].scripts))}} :
                            r.ok /\ dep_module_path(t, r.path) # m}} :
            m \in Modules(t)}
    \cup
    UNION {{<<f, c.path>> :
                c \in {r \in {canonicalize_dep_path(t, dp, Parent(f)) :
                                  dp \in {get_script_deps(f, mans[Parent(f)])[d] :
                                            d \in 1..Len(get_script_deps(f, mans[Parent(f)]))}} :
                            r.ok /\ r.path \in ScriptsOf(t, Parent(f))}} :
            f \in {g \in t.files : Parent(g) \in Modules(t)}}

\* the tasks reached from a set of tasks by n or fewer edges
RECURSIVE Within(_, _, _)
Within(E, from, n) ==
    IF n = 0 THEN from
    ELSE Within(E, from \cup {e[2] : e \in {f \in E : f[1] \in from}}, n - 1)

\* a task depends on itself through one or more declared edges
HasCycle(t, mans) ==
    \E e \in DeclaredEdges(t, mans) :
        e[1] \in Within(DeclaredEdges(t, mans), {e[2]}, Cardinality(DeclaredEdges(t, mans)))

\* every declared dependency is one the planner accepts: its path exists under
\* the source directory, and a script's dependency inside its own module names a
\* sql file
DepsLegal(t, mans) ==
    \A m \in Modules(t) :
        /\ \A d \in 1..Len(mans[m].dependencies) :
                canonicalize_dep_path(t, mans[m].dependencies[d], m).ok
        /\ \A d \in 1..Len(AllScriptDeps(mans[m].scripts)) :
                \E c \in {canonicalize_dep_path(t, AllScriptDeps(mans[m].scripts)[d], m)} :
                    /\ c.ok
                    /\ dep_module_path(t, c.path) = m => c.path \in ScriptsOf(t, m)

\* build_project is over: it returned or panicked
BuildEnded == build_result.kind \in {"Ok", "Err", "panic"}

\* C19: when the declared dependencies of a project contain a cycle (and are
\* legal otherwise), build_project ends by returning BuildError::DependencyCycle:
\* it returns no script list and does not end in any other way.
C19_CycleAlwaysReported ==
    (BuildEnded /\ ~CycleReported) =>
        ~(HasCycle(tree, manifests) /\ DepsLegal(tree, manifests))

----------------------------------------------------------------------------
(* Artifact::scripts: the stream of chunks and its content id *)

\* build.rs 533-537: "-- [ {path relative to the source directory} ]\n\n"
ScriptHeader(relpath) == <<"--", "SP", "[", "SP">> \o relpath \o <<"SP", "]", "LF", "LF">>

\* the batch of a script when every script is followed by two newlines
batch_with_blank_line(file, idx, n) ==
    ScriptHeader(file.relpath) \o trim_ascii(file.content) \o <<"LF", "LF">>

\* build.rs 528-548: the batch of script idx of n (from 1): its header, the
\* trimmed file, and two newlines, or one after the last script
ScriptBatch(file, idx, n) ==
    ScriptHeader(file.relpath) \o trim_ascii(file.content)
        \o (IF idx # n THEN <<"LF", "LF">> ELSE <<"LF">>)

\* BuildArtifact::scripts: the header batch, then one batch per script
BuildChunks(title, version, files) ==
    <<Header(title, version)>>
        \o [idx \in 1..Len(files) |-> ScriptBatch(files[idx], idx, Len(files))]

\* a BuildArtifact over script files as they are on disk when it is streamed
BuildOf(title, version, files) ==
    [kind |-> "Build", from |-> from_empty_database, to |-> version,
     chunks |-> BuildChunks(title, version, files)]

\* GeneratedMigration::scripts (backend/mod.rs 58-76): each statement and '\n'
GeneratedMigration(from, to, statements) ==
    [kind |-> "Generated", from |-> from, to |-> to,
     chunks |-> [k \in 1..Len(statements) |-> statements[k] \o <<"LF">>]]

\* Sha256: update appends to what was hashed, finalize gives the digest, which is
\* taken to be free of collisions
Sha256_new == <<>>
hasher_update_trimmed(hasher, batch) == hasher \o trim_ascii(batch)
hasher_update(hasher, batch) == hasher \o batch
hasher_finalize(hasher) == [sha256 |-> hasher]

\* the consumers: write_to's (artifact.rs 99-116), content_id's (119-132) and a
\* backend's (apply or check)
Consumers == {"write_to", "content_id", "backend"}

\* the texts of the model's script and migration files, and its statements
FileContents ==
    {<<>>, <<"LF">>, <<"x">>, <<"SP", "x", "LF">>, <<"x", "LF", "LF", "y">>}
Files == {[relpath |-> n, content |-> c] : n \in {<<"a.sql">>}, c \in FileContents}
FileLists == {<<>>} \cup {<<f>> : f \in Files} \cup {<<f, g>> : f \in Files, g \in Files}
Statements == {<<"create", "x">>, <<"drop", "y">>}
StatementLists ==
    {<<>>} \cup {<<st>> : st \in Statements}
           \cup {<<st, su>> : st \in Statements, su \in Statements}

\* the artifacts that are streamed
StreamedArtifacts ==
    {BuildOf(title, Version(1, 0, 0, ""), files) :
        title \in {<<"app">>, <<"SP", "app", "LF">>}, files \in FileLists}
    \cup {MigrationArtifact(from_empty_database, Version(1, 0, 0, ""), code) :
            code \in FileContents}
    \cup {GeneratedMigration(from_empty_database, Version(1, 0, 0, ""), statements) :
            statements \in StatementLists}

\* Artifact::scripts is entered: a new hasher, nothing delivered
Scripts(artifact, consumer) ==
    /\ stream.phase = "idle"
    /\ stream' = [phase |-> "streaming", artifact |-> artifact, consumer |-> consumer,
                  hasher |-> Sha256_new, accepted |-> <<>>, delivered |-> 0,
                  committed |-> <<>>, returned |-> <<>>]
    /\ UNCHANGED <<earlier, store>>
    /\ UNCHANGED <<buildVars, dbVars>>

\* the next batch: hasher.update(batch); consumer.accept(batch) (build.rs 525-526,
\* 550-551, backend/mod.rs 68-69, migration.rs 72, 75)
AcceptBatch ==
    /\ stream.phase = "streaming"
    /\ stream.delivered < Len(stream.artifact.chunks)
    /\ \E batch \in {stream.artifact.chunks[stream.delivered + 1]} :
        stream' = [stream EXCEPT !.hasher = hasher_update(@, batch),
                                 !.accepted = @ \o batch,
                                 !.delivered = @ + 1]
    /\ UNCHANGED <<earlier, store>>
    /\ UNCHANGED <<buildVars, dbVars>>

\* the script file cannot be read, or accept returns an error (a failed write, a
\* failed statement): `?` leaves scripts() with the error and no id
AcceptErr ==
    /\ stream.phase = "streaming"
    /\ stream.delivered < Len(stream.artifact.chunks)
    /\ stream.consumer # "content_id" \/ stream.artifact.kind # "Generated"
    /\ stream' = [stream EXCEPT !.phase = "failed"]
    /\ UNCHANGED <<earlier, store>>
    /\ UNCHANGED <<buildVars, dbVars>>

\* after the last batch: id = hasher.finalize(); consumer.commit(id)?; Ok(id)
\* (build.rs 554-556, backend/mod.rs 72-75, migration.rs 73, 76-78)
CommitId ==
    /\ stream.phase = "streaming"
    /\ stream.delivered = Len(stream.artifact.chunks)
    /\ stream' = [stream EXCEPT !.phase = "done",
                                 !.committed = <<hasher_finalize(stream.hasher)>>,
                                 !.returned = <<hasher_finalize(stream.hasher)>>]
    /\ UNCHANGED <<earlier, store>>
    /\ UNCHANGED <<buildVars, dbVars>>

\* a backend's commit returns an error: the id was passed, none is returned
CommitErr ==
    /\ stream.phase = "streaming"
    /\ stream.delivered = Len(stream.artifact.chunks)
    /\ stream.consumer = "backend"
    /\ stream' = [stream EXCEPT !.phase = "failed",
                                 !.committed = <<hasher_finalize(stream.hasher)>>]
    /\ UNCHANGED <<earlier, store>>
    /\ UNCHANGED <<buildVars, dbVars>>

InitArtifact ==
    /\ NoBuild
    /\ NoDatabase
    /\ NoTooling

NextArtifact ==
    \/ \E artifact \in StreamedArtifacts : \E consumer \in Consumers :
            Scripts(artifact, consumer)
    \/ AcceptBatch
    \/ AcceptErr
    \/ CommitId
    \/ CommitErr

SpecArtifact == InitArtifact /\ [][NextArtifact]_vars

\* C15: for every artifact kind and consumer, the content id passed to commit and
\* returned by scripts() (so by write_to() and content_id()) is the SHA-256 of the
\* concatenation, in delivery order, of the chunks passed to accept: between
\* batches what was hashed is what was delivered.
C15_IdHashesDeliveredBytes ==
    /\ stream.phase = "streaming" => stream.hasher = stream.accepted
    /\ stream.phase \in {"done", "failed"} =>
            /\ stream.committed \in {<<>>, <<[sha256 |-> stream.accepted]>>}
            /\ stream.returned \in {<<>>, <<[sha256 |-> stream.accepted]>>}
    /\ stream.phase = "done" =>
            /\ stream.committed = <<[sha256 |-> stream.accepted]>>
            /\ stream.returned = stream.committed
            /\ stream.accepted = Concat(stream.artifact.chunks)
            /\ stream.returned = <<ContentId(stream.artifact)>>

\* a build of two scripts was streamed to the end and its id returned
C15_Witness ==
    /\ stream.phase = "done"
    /\ stream.artifact.kind = "Build"
    /\ stream.delivered = 3
    /\ stream.returned # <<>>

\* C16: the bytes written by write_to end with exactly one newline: the last byte
\* is LF and the byte before it is not, also for a build with no scripts and for
\* one whose last script is empty after trimming.
C16_OneTrailingNewline ==
    (stream.phase = "done" /\ stream.consumer = "write_to" /\ stream.artifact.kind = "Build") =>
        /\ stream.accepted # <<>>
        /\ Last(stream.accepted) = "LF"
        /\ Len(stream.accepted) >= 2 => stream.accepted[Len(stream.accepted) - 1] # "LF"

----------------------------------------------------------------------------
(* The artifacts directory: save and MigrationSet (actions/save.rs, migration.rs) *)

\* util.rs 27-35: the version of a new project
new_project_version == Version(0, 1, 0, "")

\* a normalization that keeps the build metadata
normalize_keeping_build(version) == [version EXCEPT !.patch = 0]

\* util.rs 77-84: the version an artifact directory is named after
normalize_version(version) == [version EXCEPT !.patch = 0, !.build = ""]
version_dir(version) == VersionToString(normalize_version(version))

SCHEMA_ARTIFACT_TITLE == "schema"
script_name(title) == title \o <<".", SQL_EXTENSION>>

\* manifest/artifact.rs 35-39
Migration(script, from, to) == [script |-> script, from |-> from, to |-> to]

\* Migration::insert (manifest/artifact.rs 40-46) and the manifest read back:
\* `from` and `to` are stored as their texts
Stored(migration) ==
    [script |-> migration.script,
     from |-> ParseReq(ReqToString(migration.from)),
     to |-> ParseVersion(VersionToString(migration.to))]

\* an artifact directory that create_dir_all has just made
EmptyDir == [manifest |-> FALSE, migrations |-> <<>>, files |-> <<>>]

\* the versions the project manifest is edited to, and the texts of src/a.sql
SavedVersions == {new_project_version, Version(0, 1, 1, ""), Version(0, 2, 0, "")}
SavedContents == {<<"x">>, <<"x", "LF", "LF", "y">>}

\* build_project's artifact for the project as it is now
ProjectBuild(st) ==
    BuildOf(<<"app">>, st.version, <<[relpath |-> <<"a.sql">>, content |-> st.source]>>)

\* fs::create_dir_all(version_dir)
create_dir_all(dirs, d) == IF d \in DOMAIN dirs THEN dirs ELSE (d :> EmptyDir) @@ dirs

\* replace_artifact (util.rs 109-123): write_to a temporary file, renamed onto path
replace_artifact(dirs, d, script, artifact) ==
    [dirs EXCEPT ![d].files =
        IF script \in DOMAIN @ THEN [@ EXCEPT ![script] = Concat(artifact.chunks)]
        ELSE (script :> Concat(artifact.chunks)) @@ @]

\* update_artifact_migration (manifest/artifact.rs 103-148): the first entry with
\* the script's name is overwritten, without one the entry is appended
update_artifact_migration(migrations, migration) ==
    LET hits == {i \in 1..Len(migrations) : migrations[i].script = migration.script}
    IN  IF hits = {} THEN Append(migrations, Stored(migration))
        ELSE [migrations EXCEPT
                ![CHOOSE i \in hits : \A j \in hits : i <= j] = Stored(migration)]

\* save_migration (migration.rs 24-43) up to and including step `upto`:
\* 1 replace_artifact, 2 update_artifact_migration
save_migration(dirs, title, artifact, upto) ==
    LET d == version_dir(artifact.to)
        written == replace_artifact(dirs, d, script_name(title), artifact)
    IN  IF upto = 1 THEN written
        ELSE [written EXCEPT
                ![d].manifest = TRUE,
                ![d].migrations =
                    update_artifact_migration(@, Migration(script_name(title),
                                                           artifact.from, artifact.to))]

\* MigrationSet::open (migration.rs 86-118) over the directories in read_dir
\* order: the entries per `to` version, with the path of the first directory
\* that named the version; a directory without manifest is an error
RECURSIVE AddMigrations(_, _, _)
AddMigrations(entries, path, migrations) ==
    IF migrations = <<>> THEN entries
    ELSE AddMigrations(
            IF Head(migrations).to \in DOMAIN entries
            THEN [entries EXCEPT ![Head(migrations).to].list = Append(@, Head(migrations))]
            ELSE (Head(migrations).to :> [path |-> path, list |-> <<Head(migrations)>>])
                    @@ entries,
            path, Tail(migrations))

RECURSIVE MigrationSet_open(_, _)
MigrationSet_open(dirs, order) ==
    IF order = <<>> THEN [ok |-> TRUE, entries |-> <<>>]
    ELSE LET before == MigrationSet_open(dirs, SubSeq(order, 1, Len(order) - 1))
             path == order[Len(order)]
         IN  IF ~before.ok \/ ~dirs[path].manifest THEN [ok |-> FALSE, entries |-> <<>>]
             ELSE [ok |-> TRUE,
                   entries |-> AddMigrations(before.entries, path, dirs[path].migrations)]

\* a get that takes the first migration to the version, whatever it starts from
get_any_from(entries, from, to) ==
    IF to \notin DOMAIN entries THEN [found |-> FALSE, path |-> <<>>, migration |-> <<>>]
    ELSE [found |-> TRUE, path |-> entries[to].path, migration |-> entries[to].list[1]]

\* MigrationSet::get (migration.rs 142-155) and get_schema (156-158)
MigrationSet_get(entries, from, to) ==
    IF to \notin DOMAIN entries THEN [found |-> FALSE, path |-> <<>>, migration |-> <<>>]
    ELSE LET hits == {i \in 1..Len(entries[to].list) : Matches(entries[to].list[i].from, from)}
         IN  IF hits = {} THEN [found |-> FALSE, path |-> <<>>, migration |-> <<>>]
             ELSE [found |-> TRUE, path |-> entries[to].path,
                   migration |-> entries[to].list[CHOOSE i \in hits : \A j \in hits : i <= j]]
get_schema(entries, version) == MigrationSet_get(entries, empty_database_version, version)

\* what the last command was and how it ended: `from` and `to` are the arguments
\* of create_migration, for release `from` is the latest version it found and
\* `to` the version it assigned, for new_feature `to` is the new version; `was`
\* is the project version before the command
Did(op, ok, error) ==
    [op |-> op, ok |-> ok, error |-> error,
     from |-> empty_database_version, to |-> empty_database_version,
     was |-> store.version,
     nth |-> IF store.last.nth < MaxCommands THEN store.last.nth + 1 ELSE MaxCommands]

\* the project that create_project has just written
Created ==
    [op |-> "create_project", ok |-> TRUE, error |-> "",
     from |-> empty_database_version, to |-> empty_database_version,
     was |-> new_project_version, nth |-> 0]

\* the saved project before its first save: a new project
InitStore ==
    /\ NoBuild
    /\ NoDatabase
    /\ earlier = NoEarlier
    /\ stream = NoStream
    /\ store = [version |-> new_project_version, source |-> <<"x">>, dirs |-> <<>>,
                saved |-> <<>>, remote |-> empty_database_version,
                last |-> Created]

\* a save that makes the version directory before it builds
SaveProjectDirFirst(outcome) ==
    /\ store' = [store EXCEPT
            !.dirs = create_dir_all(store.dirs, version_dir(store.version)),
            !.saved = <<>>,
            !.last = Did("save", FALSE, outcome)]
    /\ UNCHANGED <<earlier, stream>>
    /\ UNCHANGED <<buildVars, dbVars>>

\* save_project (save.rs 22-40).  outcome: build_project fails; replace_artifact
\* fails (a script that cannot be read or is not UTF-8, a failed rename);
\* update_artifact_migration fails; or the save succeeds.  `saved` holds the
\* version and the bytes streamed by a save that has just succeeded
SaveProject(outcome) ==
    /\ \E build \in {ProjectBuild(store)} :
       \E made \in {create_dir_all(store.dirs, version_dir(store.version))} :
        store' = [store EXCEPT
            !.dirs = CASE outcome = "build_err" -> @
                       [] outcome = "write_err" -> made
                       [] outcome = "manifest_err" ->
                            save_migration(made, <<SCHEMA_ARTIFACT_TITLE>>, build, 1)
                       [] outcome = "ok" ->
                            save_migration(made, <<SCHEMA_ARTIFACT_TITLE>>, build, 2),
            !.saved = IF outcome = "ok"
                      THEN <<[version |-> store.version, bytes |-> Concat(build.chunks)]>>
                      ELSE <<>>,
            !.last = Did("save", outcome = "ok", outcome)]
    /\ UNCHANGED <<earlier, stream>>
    /\ UNCHANGED <<buildVars, dbVars>>

\* the version in the project manifest is edited
EditVersion(version) ==
    /\ version # store.version
    /\ store' = [store EXCEPT !.version = version, !.saved = <<>>,
                              !.last = Did("edit", TRUE, "")]
    /\ UNCHANGED <<earlier, stream>>
    /\ UNCHANGED <<buildVars, dbVars>>

\* src/a.sql is edited
EditScript(content) ==
    /\ content # store.source
    /\ store' = [store EXCEPT !.source = content, !.saved = <<>>,
                              !.last = Did("edit", TRUE, "")]
    /\ UNCHANGED <<earlier, stream>>
    /\ UNCHANGED <<buildVars, dbVars>>

\* create_migration (create.rs 66-91): an empty from_{from}.sql in the directory
\* of `to` and its manifest entry; an error when the file exists, and when the
\* directory is missing (File::create_new fails).  outcome "manifest_err":
\* update_artifact_migration fails behind the created file
CreateMigration(from, to, outcome) ==
    /\ \E script \in {<<"from_">> \o VersionToString(from)} :
       \E artifact \in {MigrationArtifact(from_minor_version(from), to, <<>>)} :
       \E did \in {[Did("create_migration", FALSE, outcome) EXCEPT !.from = from, !.to = to]} :
        store' =
            IF version_dir(to) \in DOMAIN store.dirs
                    /\ script_name(script) \in DOMAIN store.dirs[version_dir(to)].files
            THEN [store EXCEPT !.saved = <<>>, !.last = [did EXCEPT !.error = "already exists"]]
            ELSE IF version_dir(to) \notin DOMAIN store.dirs
            THEN [store EXCEPT !.saved = <<>>, !.last = [did EXCEPT !.error = "Io"]]
            ELSE IF outcome = "manifest_err"
            THEN [store EXCEPT !.dirs = save_migration(@, script, artifact, 1),
                               !.saved = <<>>, !.last = did]
            ELSE [store EXCEPT !.dirs = save_migration(@, script, artifact, 2),
                               !.saved = <<>>,
                               !.last = [did EXCEPT !.ok = TRUE, !.error = ""]]
    /\ UNCHANGED <<earlier, stream>>
    /\ UNCHANGED <<buildVars, dbVars>>

NextStore ==
    \/ \E outcome \in {"build_err", "write_err", "manifest_err", "ok"} : SaveProject(outcome)
    \/ \E version \in SavedVersions : EditVersion(version)
    \/ \E content \in SavedContents : EditScript(content)
    \/ \E to \in SavedVersions : CreateMigration(Version(0, 0, 1, ""), to, "ok")

SpecStore == InitStore /\ [][NextStore]_vars

\* C20: immediately after a save of the project at version V has succeeded,
\* MigrationSet::open followed by get_schema(V) returns an artifact whose streamed
\* bytes are those of the Build artifact streamed by the save, whatever order
\* read_dir lists the artifact directories in.
C20_SaveRoundTrip ==
    store.saved # <<>> =>
        \A order \in Perms(DOMAIN store.dirs) :
            \E set \in {MigrationSet_open(store.dirs, order)} :
                /\ set.ok
                /\ \E got \in {get_schema(set.entries, store.saved[1].version)} :
                    /\ got.found
                    /\ Concat(MigrationArtifact(
                                got.migration.from, got.migration.to,
                                store.dirs[got.path].files[got.migration.script]).chunks)
                            = store.saved[1].bytes

----------------------------------------------------------------------------
(* new_feature and release (actions/create.rs, actions/save.rs, arguments.rs) *)

\* major, minor and patch of a semver::Version are u64: the model keeps
\* PartModulus values of them, 0..PartModulus-1, in place of 2^64
PartModulus == 3
MaxPart == PartModulus - 1

\* at most MaxDirs artifact directories are made
MaxDirs == 2

\* `n + 1` on a u64: with overflow checks (the debug profile) the addition
\* panics at the largest value, without them (the release profile) it wraps
Overflows(n) == n + 1 >= PartModulus
wrapping_add(n) == (n + 1) % PartModulus

ReleaseLevels == {"Patch", "Minor", "Major"}

\* ReleaseLevel::release_version (arguments.rs 167-183)
release_version(level, latest) ==
    CASE level = "Patch" ->
            Version(latest.major, latest.minor, wrapping_add(latest.patch), "")
      [] level = "Minor" -> Version(latest.major, wrapping_add(latest.minor), 0, "")
      [] level = "Major" -> Version(wrapping_add(latest.major), 0, 0, "")
release_overflows(level, latest) ==
    CASE level = "Patch" -> Overflows(latest.patch)
      [] level = "Minor" -> Overflows(latest.minor)
      [] level = "Major" -> Overflows(latest.major)

\* Ord::max of two versions
VersionMax(a, b) == IF VersionLeq(a, b) THEN b ELSE a

\* MigrationSet::latest_released_version (migration.rs 122-125): the highest key
\* without pre-release, as a sequence of at most one version
latest_released_version(entries) ==
    LET released == {k \in DOMAIN entries : k.pre = ""}
    IN  IF released = {} THEN <<>>
        ELSE <<CHOOSE k \in released : \A j \in released : VersionLeq(j, k)>>

\* some order in which read_dir lists the artifact directories
SomeOrder(dirs) == CHOOSE order \in Perms(DOMAIN dirs) : TRUE

\* Prerelease::new: the empty text is Prerelease::EMPTY, a text with a blank is
\* refused
FeatureTitles == {"featX", "", "feat X"}
ValidPrerelease(title) == title # "feat X"

\* update_migration_versions (manifest/artifact.rs 160-232)
RenameDir(dirs, old, new) ==
    [d \in (DOMAIN dirs \ {old}) \cup {new} |-> IF d = new THEN dirs[old] ELSE dirs[d]]
\* a release that leaves the `to` of the migrations as they were
RewriteNothing(migrations, old_version, new_version) == migrations

RewriteTo(migrations, old_version, new_version) ==
    [i \in 1..Len(migrations) |->
        IF migrations[i].to = old_version
        THEN [migrations[i] EXCEPT !.to = new_version] ELSE migrations[i]]
\* upto: 1 the directory is renamed or created, 2 the manifest is rewritten
update_migration_versions(dirs, old_version, new_version, upto) ==
    LET old_module == version_dir(old_version)
        new_module == version_dir(new_version)
        moved == IF old_module \in DOMAIN dirs THEN RenameDir(dirs, old_module, new_module)
                 ELSE create_dir_all(dirs, new_module)
    IN  IF new_module \in DOMAIN dirs
        THEN [ok |-> FALSE, error |-> "AlreadyExists", dirs |-> dirs]
        ELSE [ok |-> TRUE, error |-> "",
              dirs |-> IF upto = 1 \/ ~moved[new_module].manifest THEN moved
                       ELSE [moved EXCEPT ![new_module].migrations =
                                RewriteTo(@, old_version, new_version)]]

\* new_feature (create.rs 50-64).  overflow_checks: the profile of the build;
\* outcome "manifest_err": update_project_version fails
NewFeature(title, overflow_checks, outcome) ==
    /\ \E new_version \in {[store.version EXCEPT !.minor = wrapping_add(@), !.pre = title]} :
        store' =
            IF store.version.pre # ""
            THEN [store EXCEPT !.saved = <<>>,
                    !.last = Did("new_feature", FALSE, "Already on a feature version")]
            ELSE IF Overflows(store.version.minor) /\ overflow_checks
            THEN [store EXCEPT !.saved = <<>>,
                    !.last = Did("new_feature", FALSE, "panic: attempt to add with overflow")]
            ELSE IF ~ValidPrerelease(title)
            THEN [store EXCEPT !.saved = <<>>, !.last = Did("new_feature", FALSE, "semver")]
            ELSE IF outcome = "manifest_err"
            THEN [store EXCEPT !.saved = <<>>, !.last = Did("new_feature", FALSE, "Io")]
            ELSE [store EXCEPT !.version = new_version, !.saved = <<>>,
                    !.last = [Did("new_feature", TRUE, "") EXCEPT !.to = new_version]]
    /\ UNCHANGED <<earlier, stream>>
    /\ UNCHANGED <<buildVars, dbVars>>

\* the ways a release can fail for a reason outside the project: build_project,
\* database.open, update_project_version, the rename or creation of the
\* directory, the rewrite of its manifest, the write of schema.sql
ReleaseOutcomes ==
    {"build_err", "db_err", "manifest_err", "rename_err", "rewrite_err", "write_err", "ok"}

\* release (save.rs 42-91), the whole handler
Release(level, overflow_checks, outcome) ==
    /\ \E set \in {MigrationSet_open(store.dirs, SomeOrder(store.dirs))} :
       \E latest_local \in {IF latest_released_version(set.entries) = <<>>
                             THEN empty_database_version
                             ELSE latest_released_version(set.entries)[1]} :
       \E latest \in {VersionMax(latest_local, store.remote)} :
       \E new_version \in {release_version(level, latest)} :
       \E renamed \in {update_migration_versions(store.dirs, store.version, new_version,
                                                  IF outcome = "rewrite_err" THEN 1 ELSE 2)} :
       \E built \in {ProjectBuild([store EXCEPT !.version = new_version])} :
       \E did \in {[Did("release", FALSE, outcome) EXCEPT !.from = latest,
                                                           !.to = new_version]} :
        store' =
            IF outcome = "build_err"
            THEN [store EXCEPT !.saved = <<>>, !.last = Did("release", FALSE, outcome)]
            ELSE IF ~set.ok
            THEN [store EXCEPT !.saved = <<>>, !.last = Did("release", FALSE, "OpenArtifact")]
            ELSE IF outcome = "db_err"
            THEN [store EXCEPT !.saved = <<>>, !.last = Did("release", FALSE, outcome)]
            ELSE IF release_overflows(level, latest) /\ overflow_checks
            THEN [store EXCEPT !.saved = <<>>,
                    !.last = [did EXCEPT !.error = "panic: attempt to add with overflow"]]
            ELSE IF outcome = "manifest_err"
            THEN [store EXCEPT !.saved = <<>>, !.last = did]
            ELSE IF ~renamed.ok
            THEN [store EXCEPT !.version = new_version, !.saved = <<>>,
                    !.last = [did EXCEPT !.error = renamed.error]]
            ELSE IF outcome = "rename_err"
            THEN [store EXCEPT !.version = new_version, !.saved = <<>>, !.last = did]
            ELSE IF outcome = "rewrite_err"
            THEN [store EXCEPT !.version = new_version, !.dirs = renamed.dirs,
                    !.saved = <<>>, !.last = did]
            ELSE IF outcome = "write_err"
            THEN [store EXCEPT !.version = new_version, !.dirs = renamed.dirs,
                    !.saved = <<>>, !.last = did]
            ELSE [store EXCEPT !.version = new_version,
                    !.dirs = save_migration(renamed.dirs, <<SCHEMA_ARTIFACT_TITLE>>, built, 2),
                    !.saved = <<>>,
                    !.last = [did EXCEPT !.ok = TRUE, !.error = ""]]
    /\ UNCHANGED <<earlier, stream>>
    /\ UNCHANGED <<buildVars, dbVars>>

\* the build command (main.rs 108-122) writing to stdout: build_project, then
\* write_to.  `emitted` is what the last build command wrote
BuildCommand(outcome) ==
    /\ store' = [store EXCEPT
            !.emitted = IF outcome = "ok" THEN Concat(ProjectBuild(store).chunks) ELSE <<>>,
            !.saved = <<>>,
            !.last = Did("build", outcome = "ok", outcome)]
    /\ UNCHANGED <<earlier, stream>>
    /\ UNCHANGED <<buildVars, dbVars>>

\* a saved version of the project is applied to the remote database
\* (apply_version, apply.rs 34-63): state.project_version becomes that version
RemoteApply(version) ==
    /\ \E set \in {MigrationSet_open(store.dirs, SomeOrder(store.dirs))} :
        /\ set.ok
        /\ version \in DOMAIN set.entries
    /\ version # store.remote
    /\ store' = [store EXCEPT !.remote = version, !.saved = <<>>,
                              !.last = Did("apply", TRUE, "")]
    /\ UNCHANGED <<earlier, stream>>
    /\ UNCHANGED <<buildVars, dbVars>>

\* the versions of the projects the commands start from: the project that
\* create_project writes, and projects on the last minor and the last patch
ReleaseStarts ==
    {new_project_version, Version(0, MaxPart, 0, ""), Version(0, 1, MaxPart, "")}

InitRelease ==
    /\ NoBuild
    /\ NoDatabase
    /\ earlier = NoEarlier
    /\ stream = NoStream
    /\ \E version \in ReleaseStarts, remote \in {empty_database_version, new_project_version} :
        store = [version |-> version, source |-> <<"x">>, dirs |-> <<>>,
                 saved |-> <<>>, remote |-> remote, emitted |-> <<>>,
                 last |-> Created]

\* a command that would make one directory too many is left out
RoomFor(version) ==
    \/ version_dir(version) \in DOMAIN store.dirs
    \/ Cardinality(DOMAIN store.dirs) < MaxDirs

\* commands are run while fewer than MaxCommands have been
Budget == store.last.nth < MaxCommands

NextRelease ==
    \/ \E outcome \in {"build_err", "write_err", "ok"} :
        Budget /\ RoomFor(store.version) /\ SaveProject(outcome)
    \/ \E title \in FeatureTitles, overflow_checks \in BOOLEAN,
          outcome \in {"manifest_err", "ok"} :
        Budget /\ NewFeature(title, overflow_checks, outcome)
    \/ \E level \in ReleaseLevels, overflow_checks \in BOOLEAN, outcome \in ReleaseOutcomes :
        Budget /\ RoomFor(store.version) /\ Release(level, overflow_checks, outcome)
    \/ \E version \in {store.version} \cup ReleaseStarts :
        Budget /\ RemoteApply(version)
    \/ Budget /\ CreateMigration(new_project_version, store.version, "ok")
    \/ \E outcome \in {"build_err", "ok"} : Budget /\ BuildCommand(outcome)

SpecRelease == InitRelease /\ [][NextRelease]_vars

\* C21: version 0.0.0 is never a project version: open_project refuses a manifest
\* whose version is 0.0.0, and no run of new-feature and release on a valid project
\* writes 0.0.0 into the project manifest.
C21_NeverVersionZero ==
    /\ ~open_project(empty_database_version)
    /\ store.version # empty_database_version

\* the bump of `latest` at a level in unbounded arithmetic
Bumped(level, latest) ==
    CASE level = "Patch" -> Version(latest.major, latest.minor, latest.patch + 1, "")
      [] level = "Minor" -> Version(latest.major, latest.minor + 1, 0, "")
      [] level = "Major" -> Version(latest.major + 1, 0, 0, "")

\* the released versions of the migration set: the keys without pre-release
ReleasedVersions(dirs) ==
    {k \in DOMAIN MigrationSet_open(dirs, SomeOrder(dirs)).entries : k.pre = ""}

\* C22: a release that succeeds has assigned the bump, at the requested level and
\* with empty pre-release and build metadata, of latest = max(latest released
\* version or 0.0.0, remote project_version); the new version is strictly greater
\* than every released version of the migration set and than the remote
\* database's project_version.
C22_ReleaseBumpsLatest ==
    [][\A level \in ReleaseLevels, overflow_checks \in BOOLEAN :
        (store'.last.op = "release" /\ store'.last.ok /\ Release(level, overflow_checks, "ok")) =>
            LET before == ReleasedVersions(store.dirs)
                                \cup {empty_database_version, store.remote}
                latest == store'.last.from
            IN  /\ latest \in before
                /\ \A k \in before : VersionLeq(k, latest)
                /\ store'.last.to = Bumped(level, latest)
                /\ store'.version = store'.last.to
                /\ \A k \in before : VersionLeq(k, store'.version) /\ k # store'.version]_vars

\* the project of the release example: on the feature version 0.2.0-featX, with
\* 0.1.0 the latest released version and the version of the remote database
FeatureVersion == Version(0, 2, 0, "featX")
OnFeature(st) ==
    /\ st.version = FeatureVersion
    /\ st.remote = new_project_version
    /\ MigrationSet_open(st.dirs, SomeOrder(st.dirs)).ok
    /\ latest_released_version(MigrationSet_open(st.dirs, SomeOrder(st.dirs)).entries)
            = <<new_project_version>>
    /\ version_dir(FeatureVersion) \in DOMAIN st.dirs

\* the directory names MAJOR.MINOR[-PRE]
short_dir(version) ==
    <<Digit(version.major), ".", Digit(version.minor)>>
        \o (IF version.pre = "" THEN <<>> ELSE <<"-", version.pre>>)

\* the release example with a directory name given by `name`: the release at
\* level minor assigns 0.2.0, the directory of 0.2.0-featX is renamed to that of
\* 0.2.0 and keeps its files, and every migration that pointed at 0.2.0-featX
\* points at 0.2.0, the others as before
ReleaseExample(name(_)) ==
    \A overflow_checks \in BOOLEAN :
        (store'.last.op = "release" /\ OnFeature(store)
            /\ Release("Minor", overflow_checks, "ok")) =>
            LET old == store.dirs[version_dir(FeatureVersion)]
                new_version == Version(0, 2, 0, "")
            IN  /\ store'.last.ok
                /\ store'.version = new_version
                /\ name(FeatureVersion) \notin DOMAIN store'.dirs
                /\ name(new_version) \in DOMAIN store'.dirs
                /\ LET new == store'.dirs[name(new_version)]
                   IN  /\ new.manifest
                       /\ DOMAIN new.files = DOMAIN old.files \cup {script_name(<<SCHEMA_ARTIFACT_TITLE>>)}
                       /\ \A i \in 1..Len(old.migrations) :
                            /\ new.migrations[i].script = old.migrations[i].script
                            /\ new.migrations[i].to =
                                    IF old.migrations[i].to = FeatureVersion
                                    THEN new_version ELSE old.migrations[i].to

\* C23 as stated: the directory is renamed from 0.2-featX to 0.2
C23_RenamedToShortName == [][ReleaseExample(short_dir)]_vars

\* C23: for a project at 0.2.0-featX with latest released version 0.1.0 and the
\* remote at 0.1.0, release at level minor assigns 0.2.0, renames the artifacts
\* directory 0.2.0-featX to 0.2.0 and rewrites to 0.2.0 the `to` of every
\* migration of that directory that pointed at 0.2.0-featX.
C23_ReleaseExample == [][ReleaseExample(version_dir)]_vars

\* the example has happened, with a created migration in the renamed directory
C23_Witness ==
    /\ store.last.op = "release"
    /\ store.last.was = FeatureVersion
    /\ store.last.ok
    /\ store.last.from = new_project_version
    /\ store.last.to = Version(0, 2, 0, "")
    /\ store.remote = new_project_version
    /\ <<"0", ".", "2", ".", "0">> \in DOMAIN store.dirs
    /\ \E i \in 1..Len(store.dirs[<<"0", ".", "2", ".", "0">>].migrations) :
        /\ store.dirs[<<"0", ".", "2", ".", "0">>].migrations[i].script
                # script_name(<<SCHEMA_ARTIFACT_TITLE>>)
        /\ store.dirs[<<"0", ".", "2", ".", "0">>].migrations[i].to = Version(0, 2, 0, "")

\* the version a release at `level` assigns to the project as it is in `st`
Assigned(st, level) ==
    LET entries == MigrationSet_open(st.dirs, SomeOrder(st.dirs)).entries
    IN  release_version(level,
            VersionMax(IF latest_released_version(entries) = <<>>
                       THEN empty_database_version
                       ELSE latest_released_version(entries)[1],
                       st.remote))

\* C24: when the artifacts directory of the new version exists already, release
\* fails with AlreadyExists and fails safely: the project manifest version and
\* every artifact directory and artifact manifest are as before the call.
C24_AlreadyExistsFailsSafely ==
    [][\A level \in ReleaseLevels, overflow_checks \in BOOLEAN :
        (/\ store'.last.op = "release"
         /\ MigrationSet_open(store.dirs, SomeOrder(store.dirs)).ok
         /\ version_dir(Assigned(store, level)) \in DOMAIN store.dirs
         /\ ~release_overflows(level, store'.last.from)
         /\ Release(level, overflow_checks, "ok")) =>
            /\ ~store'.last.ok
            /\ store'.last.error = "AlreadyExists"
            /\ store'.version = store.version
            /\ store'.dirs = store.dirs]_vars

\* C25: when build_project fails, nothing is emitted or persisted: the build
\* command writes no artifact, and a save or release that fails in its build step
\* makes no artifacts directory, writes no schema.sql, changes no artifact
\* manifest and leaves the project manifest version as it was.
C25_FailedBuildPersistsNothing ==
    [][(store'.last.op \in {"build", "save", "release"} /\ store'.last.error = "build_err") =>
            /\ ~store'.last.ok
            /\ store'.dirs = store.dirs
            /\ store'.version = store.version
            /\ store'.saved = <<>>
            /\ store'.last.op = "build" => store'.emitted = <<>>]_vars

\* a save has failed in its build step at a version without directory
C25_Witness ==
    /\ store.last.op = "save"
    /\ store.last.error = "build_err"
    /\ store.dirs # <<>>
    /\ version_dir(store.version) \notin DOMAIN store.dirs

----------------------------------------------------------------------------
(* create-migration and the migrations it makes findable (actions/create.rs) *)

\* the versions migrations are created from: two on the line 0.1, one on the
\* line 0.0 and a feature version
MigrationFroms ==
    {new_project_version, Version(0, 1, 1, ""), Version(0, 0, 1, ""), FeatureVersion}

NextMigrations ==
    \/ \E outcome \in {"write_err", "ok"} : Budget /\ SaveProject(outcome)
    \/ \E version \in SavedVersions : Budget /\ EditVersion(version)
    \/ \E from \in MigrationFroms, to \in SavedVersions, outcome \in {"manifest_err", "ok"} :
        Budget /\ CreateMigration(from, to, outcome)

SpecMigrations == InitStore /\ [][NextMigrations]_vars

\* the release versions on the MAJOR.MINOR line of a version
LineOf(from) == {Version(from.major, from.minor, patch, "") : patch \in 0..MaxPart}

\* MigrationSet::get(v, to) returns the script in every order of the directories
Finds(dirs, v, to, script) ==
    \A order \in Perms(DOMAIN dirs) :
        \E set \in {MigrationSet_open(dirs, order)} :
            /\ set.ok
            /\ MigrationSet_get(set.entries, v, to).found
            /\ MigrationSet_get(set.entries, v, to).migration.script = script

\* what create-migration(from, to) has done in a step in which nothing outside
\* the project failed
CreatedMigration(from, to) ==
    LET d == version_dir(to)
        script == script_name(<<"from_">> \o VersionToString(from))
    IN  IF d \in DOMAIN store.dirs /\ script \in DOMAIN store.dirs[d].files
        THEN ~store'.last.ok /\ store'.dirs = store.dirs
        ELSE /\ store'.last.ok
             /\ d \in DOMAIN store'.dirs
             /\ script \in DOMAIN store'.dirs[d].files
             /\ store'.dirs[d].files[script] = <<>>
             /\ Cardinality({i \in 1..Len(store'.dirs[d].migrations) :
                    store'.dirs[d].migrations[i] =
                        Migration(script, Comparator(from.major, <<from.minor>>, <<>>, ""), to)})
                    = 1
             /\ Cardinality({i \in 1..Len(store'.dirs[d].migrations) :
                    store'.dirs[d].migrations[i].script = script}) = 1
             /\ \A v \in LineOf(from) : Finds(store'.dirs, v, to, script)

\* C29: create-migration(from, to) fails without changing any file or manifest
\* when from_<from>.sql exists in the directory of `to`; otherwise it creates the
\* empty file and records exactly one entry {script, from: =MAJOR.MINOR of from,
\* to}, after which MigrationSet::get(v, to) finds it for every release version
\* v on the MAJOR.MINOR line of from.
C29_CreateMigration ==
    [][\A from \in MigrationFroms, to \in SavedVersions :
        (store'.last.op = "create_migration" /\ CreateMigration(from, to, "ok")) =>
            CreatedMigration(from, to)]_vars

----------------------------------------------------------------------------
(* The stream of a built project (build.rs 314-397, 477-558, main.rs 108-122) *)

\* Path::strip_prefix
strip_prefix(path, base) == SubSeq(path, Len(base) + 1, Len(path))

\* Path::to_str: the components joined by '/', a file name with its extension
RECURSIVE to_str(_)
to_str(path) ==
    IF path = <<>> THEN <<>>
    ELSE (IF Head(path).ext = "" THEN <<Head(path).stem>>
          ELSE <<Head(path).stem, ".", Head(path).ext>>)
         \o (IF Len(path) > 1 THEN <<"/">> ELSE <<>>)
         \o to_str(Tail(path))

\* File::open and read_to_end: the bytes of the script files of the full tree
read_to_end(script) ==
    CASE script = ModA \o <<FileName("x", "sql")>> -> <<"SP", "x", "LF">>
      [] script = ModAB \o <<FileName("x", "sql")>> -> <<"x", "LF", "LF", "y">>
      [] script = ModC \o <<FileName("x", "sql")>> -> <<"LF">>
      [] OTHER -> <<"LF", "y", "SP", "z">>

\* the script files of a BuildArtifact as scripts() names and reads them
BuiltFiles(built) ==
    [idx \in 1..Len(built) |->
        [relpath |-> to_str(strip_prefix(built[idx], source_dir)),
         content |-> read_to_end(built[idx])]]

\* the titles a project manifest can carry
ProjectTitles == {<<"app">>, <<"SP", "app", "LF">>}

\* BuildArtifact::new(scripts, info) of a finished build_project, and scripts() is
\* entered on it (write_to of the build command, content_id, a backend)
StreamBuild(title, consumer) ==
    /\ build_result.kind = "Ok"
    /\ Scripts(BuildOf(title, new_project_version, BuiltFiles(build_result.scripts)),
               consumer)

InitBuilt == InitBuild

NextBuilt ==
    \/ StartBuild
    \/ ProcessModule
    \/ ProcessScript
    \/ AssertPanic
    \/ AssertCompiledOut
    \/ FinishBuild
    \/ \E title \in ProjectTitles : \E consumer \in Consumers : StreamBuild(title, consumer)
    \/ AcceptBatch
    \/ AcceptErr
    \/ CommitId
    \/ CommitErr

SpecBuilt == InitBuilt /\ [][NextBuilt]_vars

\* the source directory is missing or has no entries
EmptySource == Children(tree, source_dir) = {}

\* "-- [ <title> <version> ]\n\n"
HeaderLine(title, version) ==
    <<"--", "SP", "[", "SP">> \o title \o <<"SP">> \o VersionToString(version)
        \o <<"SP", "]", "LF", "LF">>

TitleAsWritten(title) == HeaderLine(title, new_project_version)
TitleTrimmed(title) == HeaderLine(trim_ascii(title), new_project_version)

\* the build of a project without sources succeeds with no scripts, and the id a
\* finished stream of it returned is the SHA-256 of what it delivered
EmptyBuildSucceeds ==
    /\ EmptySource =>
            /\ build_result.kind \in {"init", "running", "Ok"}
            /\ build_result.kind = "Ok" => build_result.scripts = <<>>
            /\ stream.phase = "done" => stream.returned = <<[sha256 |-> stream.accepted]>>
    /\ stream.phase = "done" => stream.accepted = Concat(stream.artifact.chunks)

\* C26 as stated: a project whose source directory is empty or missing builds to a
\* Build artifact with an empty script list, whose stream is exactly the header
\* "-- [ <title> <version> ]\n\n" with the title of the project, and whose content
\* id is the SHA-256 of that string.
C26_EmptyProjectHeader ==
    /\ [](EmptyBuildSucceeds)
    /\ [][\A title \in ProjectTitles : \A consumer \in Consumers :
            (EmptySource /\ StreamBuild(title, consumer)) =>
                Concat(stream'.artifact.chunks) = TitleAsWritten(title)]_vars

\* C26: a project whose source directory is empty or missing builds to a Build
\* artifact with an empty script list, whose stream is exactly the header
\* "-- [ <title> <version> ]\n\n" with the title stripped of its leading and
\* trailing ASCII white space, and whose content id is the SHA-256 of that string.
C26_EmptyProjectTrimmedHeader ==
    /\ [](EmptyBuildSucceeds)
    /\ [][\A title \in ProjectTitles : \A consumer \in Consumers :
            (EmptySource /\ StreamBuild(title, consumer)) =>
                Concat(stream'.artifact.chunks) = TitleTrimmed(title)]_vars

\* a project without sources and with a padded title was built and streamed to the
\* end
C26_Witness ==
    /\ EmptySource
    /\ build_result.kind = "Ok"
    /\ stream.phase = "done"
    /\ stream.accepted = TitleTrimmed(<<"SP", "app", "LF">>)
    /\ stream.returned # <<>>

\* the stream the scripts 1..upto of a build make after the header: each marker
\* and trimmed body, two newlines between a body and the next marker
RECURSIVE Bodies(_, _)
Bodies(built, upto) ==
    IF upto = 0 THEN <<>>
    ELSE Bodies(built, upto - 1)
         \o (IF upto = 1 THEN <<>> ELSE <<"LF", "LF">>)
         \o <<"--", "SP", "[", "SP">> \o to_str(strip_prefix(built[upto], source_dir))
         \o <<"SP", "]", "LF", "LF">>
         \o trim_ascii(read_to_end(built[upto]))

ExpectedStream(title, built) ==
    TitleTrimmed(title)
        \o Bodies(built, Len(built))
        \o (IF built = <<>> THEN <<>> ELSE <<"LF">>)

\* C27: the Build artifact stream is the header followed, for each script in
\* planner order, by the marker "-- [ <path relative to source dir> ]\n\n" and the
\* script's bytes with leading and trailing ASCII whitespace removed, the interior
\* verbatim; consecutive bodies are separated by exactly "\n\n" and the last body
\* is followed by exactly one "\n".
C27_BuildStreamFormat ==
    /\ [][\A title \in ProjectTitles : \A consumer \in Consumers :
            StreamBuild(title, consumer) =>
                Concat(stream'.artifact.chunks) = ExpectedStream(title, build_result.scripts)]_vars
    /\ [](stream.phase = "done" => stream.accepted = Concat(stream.artifact.chunks))

\* a build of at least two scripts, one of them with white space around its text,
\* was streamed to the end
C27_Witness ==
    /\ stream.phase = "done"
    /\ Len(build_result.scripts) >= 2
    /\ stream.delivered = Len(build_result.scripts) + 1
    /\ \E idx \in 1..Len(build_result.scripts) :
            trim_ascii(read_to_end(build_result.scripts[idx])) # read_to_end(build_result.scripts[idx])

----------------------------------------------------------------------------
(* apply_version (actions/apply.rs 34-63) over the saved migrations *)

\* the artifacts directory after `save` at `version`
SavedAt(dirs, version) ==
    save_migration(create_dir_all(dirs, version_dir(version)), <<SCHEMA_ARTIFACT_TITLE>>,
                   ProjectBuild([version |-> version, source |-> <<"x">>]), 2)

\* the artifacts directory after `create-migration from to` and the edit that
\* wrote the statements of the migration into its file
MigrationWritten(dirs, from, to) ==
    save_migration(dirs, <<"from_">> \o VersionToString(from),
                   MigrationArtifact(from_minor_version(from), to, <<"alter table t">>), 2)

\* the artifacts directories apply_version is run over: of a new project; after a
\* save at 0.1.0; after a second save at 0.2.0 and a migration between the two;
\* and the latter with the directory a failed save of 0.3.0 left without manifest
ApplyStores == 1..4
ApplyStore(k) ==
    CASE k = 1 -> <<>>
      [] k = 2 -> SavedAt(<<>>, new_project_version)
      [] k = 3 -> MigrationWritten(SavedAt(SavedAt(<<>>, new_project_version),
                                            Version(0, 2, 0, "")),
                                   new_project_version, Version(0, 2, 0, ""))
      [] OTHER -> create_dir_all(
                    MigrationWritten(SavedAt(SavedAt(<<>>, new_project_version),
                                             Version(0, 2, 0, "")),
                                     new_project_version, Version(0, 2, 0, "")),
                    version_dir(Version(0, 3, 0, "")))

\* the versions apply-version is asked for
ApplyTargets == {new_project_version, Version(0, 2, 0, ""), Version(0, 3, 0, "")}

\* migration.rs 142-151: the MigrationArtifact of a found entry, its script read
\* from the directory the entry's version was first found in
StoredArtifact(dirs, got) ==
    MigrationArtifact(got.migration.from, got.migration.to,
                      dirs[got.path].files[got.migration.script])

\* apply_version (actions/apply.rs 34-63) up to its call of Backend::apply, or to
\* its end: open(), MigrationSet::open over the directories in read_dir order,
\* and get(state.project_version, version)
ApplyVersion(i, version, order) ==
    /\ AppliesBegun < MaxApplies
    /\ Enter(i, "apply_version")
    /\ \E r \in {open(db, ReadBusy(i), CommitBusy(i))} :
       \E set \in {MigrationSet_open(store.dirs, order)} :
        /\ db' = r.db
        /\ IF r.res.kind # "Ok" THEN Return(i, r.res)
           ELSE IF ~set.ok THEN Return(i, Result("MigrationSetError", NoState))
           ELSE \E got \in {MigrationSet_get(set.entries, r.res.state.project_version,
                                             version)} :
                    IF got.found
                    THEN Continue(i, "begin", StoredArtifact(store.dirs, got))
                    ELSE Return(i, Result("NoSavedMigration", NoState))
    /\ UNCHANGED <<backend, lock_log, last_applied>>
    /\ UNCHANGED <<buildVars, toolVars>>

\* a database sqigl has not touched yet, two idle engine instances, and a project
\* with saved artifacts
InitApplyVersion ==
    /\ NoBuild
    /\ backend \in Backends
    /\ db = Absent
    /\ lock = [i \in Instances |-> "none"]
    /\ call = [i \in Instances |-> "none"]
    /\ pc = [i \in Instances |-> "idle"]
    /\ art = [i \in Instances |-> NoArtifact]
    /\ tx = [i \in Instances |-> NoTx]
    /\ ran = [i \in Instances |-> <<>>]
    /\ seen = [i \in Instances |-> NoState]
    /\ result = [i \in Instances |-> NoResult]
    /\ lock_log = <<>>
    /\ last_applied = NoArtifact
    /\ earlier = NoEarlier
    /\ stream = NoStream
    /\ \E k \in ApplyStores : store = [dirs |-> ApplyStore(k)]

NextApplyVersion ==
    \E i \in Instances :
        \/ \E version \in ApplyTargets : \E order \in Perms(DOMAIN store.dirs) :
                ApplyVersion(i, version, order)
        \/ Lock(i)
        \/ LockTimesOut(i)
        \/ ReadState(i)
        \/ Accept(i)
        \/ AcceptFails(i)
        \/ CommitApply(i)
        \/ CommitFails(i)
        \/ ReturnState(i)

SpecApplyVersion == InitApplyVersion /\ [][NextApplyVersion]_vars

\* the project version of a database: 0.0.0 while head is NULL, else the version
\* of the history row head points at
Current(d) == IF d.head = 0 THEN empty_database_version
              ELSE ParseVersion(d.history[d.head].version)

\* every artifact directory has its manifest, so that the migration set loads
Loads(dirs) == \A d \in DOMAIN dirs : dirs[d].manifest

\* the manifest entries to `version` whose requirement takes the version `current`
StoredFor(dirs, current, version) ==
    {e \in UNION {{[dir |-> d, nth |-> k] : k \in 1..Len(dirs[d].migrations)} :
                    d \in DOMAIN dirs} :
        /\ dirs[e.dir].migrations[e.nth].to = version
        /\ Matches(dirs[e.dir].migrations[e.nth].from, current)}

\* C28: once the backend has opened and the migration set has loaded,
\* apply-version(v) goes on to Backend::apply with a stored migration to v that is
\* compatible with state.project_version when one exists, and that apply commits
\* v as the project version; when none exists it fails with `No saved migration`
\* without opening an apply transaction, leaving project_version, head and history
\* unchanged.
C28_ApplyVersion ==
    /\ [][\A i \in Instances : \A version \in ApplyTargets :
          \A order \in Perms(DOMAIN store.dirs) :
            (/\ pc[i] = "idle" /\ call'[i] = "apply_version"
             /\ ApplyVersion(i, version, order)
             /\ open(db, ReadBusy(i), CommitBusy(i)).res.kind = "Ok"
             /\ Loads(store.dirs)) =>
                IF StoredFor(store.dirs, Current(db), version) # {}
                THEN /\ pc'[i] = "begin"
                     /\ \E e \in StoredFor(store.dirs, Current(db), version) :
                        \E m \in {store.dirs[e.dir].migrations[e.nth]} :
                            art'[i] = MigrationArtifact(m.from, m.to,
                                                        store.dirs[e.dir].files[m.script])
                ELSE /\ result'[i].kind = "NoSavedMigration"
                     /\ pc'[i] = "idle"
                     /\ tx' = tx
                     /\ lock' = lock
                     /\ lock_log' = lock_log
                     /\ db'.head = db.head
                     /\ db'.history = db.history
                     /\ Current(db') = Current(db)]_vars
    /\ [][\A i \in Instances :
            (call[i] = "apply_version" /\ pc[i] = "commit" /\ CommitApply(i)) =>
                /\ compatible(art[i], Current(db))
                /\ Current(db') = art[i].to
                /\ Len(db'.history) = Len(db.history) + 1]_vars

\* apply-version applied the schema of 0.1.0 and then the migration to 0.2.0, and
\* one call in between found no saved migration
C28_Witness ==
    /\ Current(db) = Version(0, 2, 0, "")
    /\ Len(db.history) = 2
    /\ last_applied.kind = "Migration"
    /\ \E i \in Instances :
        /\ call[i] = "apply_version"
        /\ result[i].kind = "NoSavedMigration"

----------------------------------------------------------------------------
(* Tasks are scheduled and completed once (build.rs 89-93, 139-143, 391-392) *)

\* the iteration that is run next calls push_module or push_script with a path
\* that is not completed, or inserts a path into completed_tasks that is new
FreshTask ==
    \E top \in {Top} : \E out \in {Processed} :
        /\ out.op \in {"push_module", "push_script"} => out.path \notin completed_tasks
        /\ out.op = "complete" => top.path \notin completed_tasks

\* C31: during build_project no completed task is pushed onto the dependency
\* stack again and no task is completed twice: every push_module and push_script
\* call is made with a path that is not in the completed set, and every insertion
\* into the completed set is a first-time insertion.
C31_TasksScheduledOnce ==
    [][(ProcessModule \/ ProcessScript \/ AssertPanic \/ AssertCompiledOut) => FreshTask]_vars

----------------------------------------------------------------------------
(* The scripts of a successful build *)

\* the regular .sql files directly inside the directories under the source root
SourceScripts(t) ==
    {f \in t.files : StartsWith(Parent(f), source_dir) /\ Extension(f) = SQL_EXTENSION}

\* C32: on every successful build the output list contains every regular .sql
\* file located directly in any directory under the source root exactly once and
\* nothing else (no other file, no directory, no duplicate), whether or not the
\* directories have manifests and however the modules are reached.
C32_ExactlyTheSourceScripts ==
    build_result.kind = "Ok" =>
        /\ {build_result.scripts[i] : i \in 1..Len(build_result.scripts)} = SourceScripts(tree)
        /\ Len(build_result.scripts) = Cardinality(SourceScripts(tree))
        /\ build_result.scripts = scripts

\* a successful build of the full tree in which src/c was reached as a declared
\* dependency of another module, ahead of its turn as a deferred subdirectory
C32_Witness ==
    /\ build_result.kind = "Ok"
    /\ tree = FullTree
    /\ \E m \in Modules(tree) \ {ModC} : \E i \in 1..Len(manifests[m].dependencies) :
            DepTarget(tree, m, manifests[m].dependencies[i]) = ModC
    /\ Len(build_result.scripts) = 4

\* C33: subdirectory modules are deferred, not dependencies of their parent: in
\* every successful build all scripts of a directory precede all scripts of each
\* of its descendant directories, also when the descendant is first reached
\* through a horizontal dependency from another module before its parent was
\* processed.
C33_AncestorsFirst ==
    build_result.kind = "Ok" =>
        \A d \in Modules(tree) : \A e \in Modules(tree) :
            (e # d /\ StartsWith(e, d)) => ModuleBefore(tree, build_result.scripts, d, e)

\* a successful build in which src/c, the first subdirectory taken from the defer
\* stack, declares a dependency on src/a/b: src/a/b was reached from src/c before
\* src/a was processed, and its script is listed behind that of src/a
C33_Witness ==
    /\ build_result.kind = "Ok"
    /\ tree = FullTree
    /\ Last(dir_order[source_dir]) = ModC
    /\ \E i \in 1..Len(manifests[ModC].dependencies) :
            DepTarget(tree, ModC, manifests[ModC].dependencies[i]) = ModAB
    /\ build_result.scripts[1] = ModA \o <<FileName("x", "sql")>>
    /\ build_result.scripts[2] = ModAB \o <<FileName("x", "sql")>>

----------------------------------------------------------------------------
(* A module that names itself in module.dependencies (build.rs 200-212) *)

\* the entry `dep` of module.dependencies of module m names m or a file in m
SelfDep(t, m, dep) ==
    \E c \in {canonicalize_dep_path(t, dep, m)} :
        c.ok /\ dep_module_path(t, c.path) = m

\* the manifests with the entries of module.dependencies that name the module
\* itself taken out
WithoutSelfDeps(t, mans) ==
    [m \in DOMAIN mans |->
        [mans[m] EXCEPT !.dependencies = SelectSeq(@, LAMBDA dep : ~SelfDep(t, m, dep))]]

\* the declarations of the full tree that put such an entry into a manifest
SelfDecls ==
    {d \in FullTreeDecls : d.script = DirName("") /\ SelfDep(FullTree, d.dir, d.dep)}

\* build_project has returned; the self-naming entries are deleted from the
\* manifests and the project is built again under the same directory listing
RebuildWithoutSelfDeps ==
    /\ build_result.kind \in {"Ok", "Err"}
    /\ earlier = NoEarlier
    /\ earlier' = [kind |-> build_result.kind, scripts |-> build_result.scripts,
                   err |-> build_result.err]
    /\ manifests' = WithoutSelfDeps(tree, manifests)
    /\ depend_stack' = <<>>
    /\ defer_stack' = <<>>
    /\ completed_tasks' = {}
    /\ scripts' = <<>>
    /\ build_result' = [kind |-> "init", scripts |-> <<>>, err |-> NoError]
    /\ UNCHANGED <<tree, dir_order, debug_assertions, stream, store>>
    /\ UNCHANGED dbVars

\* the full tree with one self-naming entry and at most one more declaration
InitSelfDeps ==
    /\ tree = FullTree
    /\ \E self \in SelfDecls :
        \E decls \in {<<self>>} \cup {<<self, d>> : d \in FullTreeDecls}
                                \cup {<<d, self>> : d \in FullTreeDecls} :
            manifests = ManifestsOf(FullTreeModules, decls)
    /\ dir_order \in FullTreeOrders
    /\ debug_assertions = "either"
    /\ depend_stack = <<>>
    /\ defer_stack = <<>>
    /\ completed_tasks = {}
    /\ scripts = <<>>
    /\ build_result = [kind |-> "init", scripts |-> <<>>, err |-> NoError]
    /\ NoDatabase
    /\ NoTooling

NextSelfDeps ==
    \/ StartBuild
    \/ ProcessModule
    \/ ProcessScript
    \/ AssertPanic
    \/ AssertCompiledOut
    \/ FinishBuild
    \/ RebuildWithoutSelfDeps

SpecSelfDeps == InitSelfDeps /\ [][NextSelfDeps]_vars

\* C34: a module whose module.dependencies names the module itself or one of the
\* files directly inside it is built as if that dependency were absent: the entry
\* is skipped, it raises no DependencyCycle, and the build returns what it returns
\* without the entry, the same script order or the same error.
C34_SelfDependencySkipped ==
    /\ earlier.kind # "none" =>
            /\ build_result.kind \in {"init", "running", earlier.kind}
            /\ build_result.kind = earlier.kind =>
                    /\ build_result.scripts = earlier.scripts
                    /\ build_result.err = earlier.err

\* the project with the self-naming entry and the project without it were both
\* built to the end
C34_Witness ==
    /\ earlier.kind = "Ok"
    /\ build_result.kind = "Ok"
    /\ Len(build_result.scripts) = 4
    /\ manifests = WithoutSelfDeps(tree, manifests)

----------------------------------------------------------------------------
(* A module that depends on one of its own subdirectories *)

\* the dependencies module m declares, in module.dependencies and in its
\* [[scripts]] entries
DeclaredDeps(mans, m) == mans[m].dependencies \o AllScriptDeps(mans[m].scripts)

\* the pairs of a module and a descendant directory it declares a dependency on
DescendantDeps(t, mans) ==
    {pair \in Modules(t) \X Modules(t) :
        /\ pair[2] # pair[1]
        /\ StartsWith(pair[2], pair[1])
        /\ \E i \in 1..Len(DeclaredDeps(mans, pair[1])) :
            \E c \in {canonicalize_dep_path(t, DeclaredDeps(mans, pair[1])[i], pair[1])} :
                c.ok /\ dep_module_path(t, c.path) = pair[2]}

\* the number of dependency declarations in all manifests
Declarations(t, mans) ==
    LET counts == [m \in Modules(t) |-> Len(DeclaredDeps(mans, m))]
        RECURSIVE Sum(_)
        Sum(S) == IF S = {} THEN 0
                  ELSE LET m == CHOOSE x \in S : TRUE IN counts[m] + Sum(S \ {m})
    IN  Sum(Modules(t))

Finished == build_result.kind \in {"Ok", "Err", "panic"}

InPath(path, m) == \E k \in 1..Len(path) : path[k] = m

\* C35 as stated: a module that declares a dependency, module-level or through
\* one of its scripts, on one of its own descendant directories can never be
\* built, and the DependencyCycle of that dependency has a cycle_path that starts
\* at a declaring module.
C35_CycleStartsAtDeclaringModule ==
    \A pair \in DescendantDeps(tree, manifests) :
        /\ build_result.kind # "Ok"
        /\ (/\ build_result.kind = "Err"
            /\ build_result.err.kind = "DependencyCycle"
            /\ InPath(build_result.err.cycle_path, pair[1])
            /\ InPath(build_result.err.cycle_path, pair[2]))
                => \E other \in DescendantDeps(tree, manifests) :
                        build_result.err.cycle_path[1] = other[1]

\* C35: a module that declares a dependency, module-level or through one of its
\* scripts, on one of its own descendant directories can never be built; when
\* that is the only declaration of the project, build_project fails with
\* DependencyCycle and cycle_path starts at the declaring module; in general the
\* cycle_path of that cycle starts at a declaring module or, when the
\* descendant was pushed first as a dependency of another module, at the
\* descendant.
C35_DescendantDependencyFails ==
    \A pair \in DescendantDeps(tree, manifests) :
        /\ build_result.kind # "Ok"
        /\ (/\ build_result.kind = "Err"
            /\ build_result.err.kind = "DependencyCycle"
            /\ InPath(build_result.err.cycle_path, pair[1])
            /\ InPath(build_result.err.cycle_path, pair[2]))
                => \E other \in DescendantDeps(tree, manifests) :
                        build_result.err.cycle_path[1] \in {other[1], other[2]}
        /\ (Finished /\ Declarations(tree, manifests) = 1) =>
                /\ build_result.kind = "Err"
                /\ build_result.err.kind = "DependencyCycle"
                /\ build_result.err.cycle_path[1] = pair[1]
                /\ InPath(build_result.err.cycle_path, pair[2])

\* src/a depends on its subdirectory b, and src/a/b was pushed first, as a
\* dependency of another module: the cycle is reported from src/a/b
C35_Witness ==
    /\ <<ModA, ModAB>> \in DescendantDeps(tree, manifests)
    /\ build_result.kind = "Err"
    /\ build_result.err.kind = "DependencyCycle"
    /\ build_result.err.cycle_path = <<ModAB, ModA>>

----------------------------------------------------------------------------
(* The state Backend::apply returns *)

\* C36: the SqiglState returned by a successful Backend::apply(A) is the
\* post-apply state: its project_version equals A.version() and it equals what an
\* immediately following open() returns, on the Postgres and on the SQLite
\* backend.
C36_ApplyReturnsPostState ==
    [][\A i \in Instances :
        (/\ pc[i] \in {"commit", "state"} /\ pc'[i] = "idle"
         /\ call[i] \in Applies /\ result'[i].kind = "Ok"
         /\ (CommitApply(i) \/ ReturnState(i))) =>
            /\ result'[i].state.project_version = art[i].to
            /\ result'[i].state = open(db', FALSE, FALSE).res.state]_vars

----------------------------------------------------------------------------
(* The saved schemas of other versions *)

\* what MigrationSet::open and get_schema(version) return over `dirs` listed in
\* `order`, and the bytes the returned artifact streams
SchemaOf(dirs, order, version) ==
    LET set == MigrationSet_open(dirs, order)
        got == get_schema(set.entries, version)
    IN  IF ~set.ok \/ ~got.found THEN [found |-> FALSE, bytes |-> <<>>]
        ELSE [found |-> TRUE,
              bytes |-> Concat(MigrationArtifact(
                            got.migration.from, got.migration.to,
                            dirs[got.path].files[got.migration.script]).chunks)]

\* C37: for any sequence of save operations at different project versions,
\* saving version V leaves the stored schema of every other previously saved
\* version V' unchanged: get_schema(V') still returns an artifact and it streams
\* the same bytes as before the save, also when V and V' differ only in their
\* patch number.
C37_SaveKeepsOtherSchemas ==
    [][(store'.last.op = "save" /\ store'.last.ok /\ SaveProject("ok")) =>
        \A other \in SavedVersions \ {store.version} :
            \A order \in Perms(DOMAIN store.dirs) :
                SchemaOf(store.dirs, order, other).found =>
                    \A after \in Perms(DOMAIN store'.dirs) :
                        SchemaOf(store'.dirs, after, other)
                            = SchemaOf(store.dirs, order, other)]_vars

----------------------------------------------------------------------------
(* check() on a database without the engine tables *)

\* Backend::check is the only call made on the database
NextCheck ==
    \E i \in Instances :
        \/ \E artifact \in Artifacts : Check(i, artifact)
        \/ ReadState(i)
        \/ Accept(i)
        \/ AcceptFails(i)
        \/ CheckCommit(i)

SpecCheck == InitDb /\ [][NextCheck]_vars

\* the database right after install: the tables and the state row, head NULL,
\* no artifact or history row, nothing of the user's schema
JustInstalled(d) ==
    /\ d.installed
    /\ d.head = 0
    /\ d.history = <<>>
    /\ d.artifact = <<>>
    /\ d.schema = <<>>
    /\ d.sqigl_version = VersionToString(SQIGL_VERSION)
    /\ get_state(d).ok
    /\ get_state(d).state.project_version = empty_database_version

\* C38: check() called on a database that lacks the engine tables first installs
\* them through open() in a transaction of its own that is committed, so after
\* check returns the database is in the installed state (state row present, head
\* null, project_version 0.0.0) and only the artifact's scripts were rolled back.
C38_CheckInstalls ==
    /\ [][\A i \in Instances :
            (/\ pc[i] = "idle" /\ call'[i] = "check" /\ ~db.installed
             /\ ~ReadBusy(i) /\ ~CommitBusy(i)
             /\ \E artifact \in Artifacts : Check(i, artifact)) =>
                /\ JustInstalled(db')
                /\ tx'[i] = NoTx
                /\ pc'[i] = "read"]_vars
    /\ [][\A i \in Instances :
            (/\ call[i] = "check" /\ pc[i] # "idle"
             /\ (ReadState(i) \/ Accept(i) \/ AcceptFails(i) \/ CheckCommit(i))) =>
                db' = db]_vars
    /\ [](\A i \in Instances :
            (call[i] = "check" /\ pc[i] = "idle" /\ result[i].kind # "DatabaseError")
                => JustInstalled(db))

\* a check of the 1.0.0 schema on a database no other call was made on has run
\* its script and returned: the tables are installed, the script's effect is not
C38_Witness ==
    \E i \in Instances :
        /\ call[i] = "check"
        /\ pc[i] = "idle"
        /\ result[i].kind = "Ok"
        /\ ran[i] = Schema1.chunks
        /\ \A j \in Instances \ {i} : call[j] = "none"
        /\ JustInstalled(db)

----------------------------------------------------------------------------
(* PostgresBackend::generate_migration and its scratch databases *)

\* rand::random::<u32>() of lines 399-400, each value standing for the database
\* name sqigl_tmp_<value>
ScratchNames == 1..3

\* delta.rs 8-13: the routine is unimplemented!() and panics whenever it is called
delta(from_db, to_db) == [kind |-> "panic", statements |-> <<>>]

\* the server and the call in progress: the databases named sqigl_tmp_* that
\* exist, the two names drawn, the ones this call created, and how the last
\* call ended
NoGeneration ==
    [phase |-> "idle", databases |-> {}, from_db_name |-> 0, to_db_name |-> 0,
     from |-> Schema1, to |-> Schema1, created |-> {}, result |-> "none"]

InitGenerate ==
    /\ NoBuild
    /\ NoDatabase
    /\ earlier = NoEarlier
    /\ stream = NoStream
    /\ store = NoGeneration

Returned(outcome) ==
    [store EXCEPT !.phase = "idle", !.result = outcome]

\* 396-400: the two assertions, then the two names
GenerateMigration(from, to) ==
    /\ store.phase = "idle"
    /\ IF ~compatible(from, empty_database_version) \/ ~compatible(to, empty_database_version)
       THEN store' = [store EXCEPT !.from = from, !.to = to, !.created = {},
                                   !.from_db_name = 0, !.to_db_name = 0,
                                   !.result = "panic"]
       ELSE \E from_db_name \in ScratchNames, to_db_name \in ScratchNames :
               store' = [store EXCEPT !.phase = "create", !.from = from, !.to = to,
                                      !.created = {}, !.result = "running",
                                      !.from_db_name = from_db_name,
                                      !.to_db_name = to_db_name]
    /\ UNCHANGED <<earlier, stream>>
    /\ UNCHANGED <<buildVars, dbVars>>

\* `create database` fails on a name that is taken, and may fail for the
\* server's own reasons
CanCreate(databases, name, accepted) == accepted /\ name \notin databases

\* 401-403: the loop over the two names, left at the first failure
CreateDatabases(first_accepted, second_accepted) ==
    /\ store.phase = "create"
    /\ IF ~CanCreate(store.databases, store.from_db_name, first_accepted)
       THEN store' = Returned("Err")
       ELSE \E with_from \in {store.databases \union {store.from_db_name}} :
               IF ~CanCreate(with_from, store.to_db_name, second_accepted)
               THEN store' = [Returned("Err") EXCEPT
                                 !.databases = with_from,
                                 !.created = {store.from_db_name}]
               ELSE store' = [store EXCEPT
                                 !.phase = "load_from",
                                 !.databases = with_from \union {store.to_db_name},
                                 !.created = {store.from_db_name, store.to_db_name}]
    /\ UNCHANGED <<earlier, stream>>
    /\ UNCHANGED <<buildVars, dbVars>>

\* 405-410 and 411-416: connect to a scratch database and run the schema in it
ConnectAndLoad(connected, loaded) ==
    /\ store.phase \in {"load_from", "load_to"}
    /\ IF ~connected \/ ~loaded
       THEN store' = Returned("Err")
       ELSE store' = [store EXCEPT
                         !.phase = IF store.phase = "load_from" THEN "load_to" ELSE "delta"]
    /\ UNCHANGED <<earlier, stream>>
    /\ UNCHANGED <<buildVars, dbVars>>

\* 418-427: delta, the loop of `drop database`, the generated migration
DiffAndDrop(first_dropped, second_dropped) ==
    /\ store.phase = "delta"
    /\ \E statements \in {delta(store.from_db_name, store.to_db_name)} :
        IF statements.kind = "panic" THEN store' = Returned("panic")
        ELSE IF statements.kind = "Err" THEN store' = Returned("Err")
        ELSE IF ~first_dropped THEN store' = Returned("Err")
        ELSE IF ~second_dropped
             THEN store' = [Returned("Err") EXCEPT
                               !.databases = store.databases \ {store.from_db_name}]
        ELSE store' = [Returned("Ok") EXCEPT
                          !.databases = store.databases \
                                          {store.from_db_name, store.to_db_name}]
    /\ UNCHANGED <<earlier, stream>>
    /\ UNCHANGED <<buildVars, dbVars>>

NextGenerate ==
    \/ \E from \in Artifacts, to \in Artifacts : GenerateMigration(from, to)
    \/ \E first_accepted \in BOOLEAN, second_accepted \in BOOLEAN :
          CreateDatabases(first_accepted, second_accepted)
    \/ \E connected \in BOOLEAN, loaded \in BOOLEAN : ConnectAndLoad(connected, loaded)
    \/ \E first_dropped \in BOOLEAN, second_dropped \in BOOLEAN :
          DiffAndDrop(first_dropped, second_dropped)

SpecGenerate == InitGenerate /\ [][NextGenerate]_vars

\* C39: after generate_migration returns, with a generated migration or with an
\* error raised while creating, connecting to, loading or diffing the scratch
\* databases, the scratch databases it created have been dropped and none of
\* them remains on the server.
C39_ScratchDatabasesDropped ==
    (store.phase = "idle" /\ store.result \in {"Ok", "Err"})
        => store.created \intersect store.databases = {}

----------------------------------------------------------------------------
(* normalize_version and the names of the artifact directories (util.rs 76-84) *)

\* the versions handed to normalize_version: project versions and the `to` of a
\* migration, with and without pre-release and build metadata
NormalizeInputs ==
    {[major |-> major, minor |-> minor, patch |-> patch, pre |-> pre, build |-> build] :
        major \in 0..1, minor \in 0..1, patch \in 0..1,
        pre \in {"", "featX"}, build \in {"", "b1"}}

\* two versions whose artifact directories are about to be named
InitNormalize ==
    /\ NoBuild
    /\ NoDatabase
    /\ earlier = NoEarlier
    /\ stream = NoStream
    /\ \E left \in NormalizeInputs, right \in NormalizeInputs :
        store = [phase |-> "versions", left |-> left, right |-> right]

\* save_project 32-33, save_migration 31-33, create_migration 70-72: the directory
\* of a version is named normalize_version(version).to_string()
NameDirs ==
    /\ store.phase = "versions"
    /\ store' = [phase |-> "named", left |-> store.left, right |-> store.right,
                 normal |-> normalize_version(store.left),
                 left_dir |-> version_dir(store.left),
                 right_dir |-> version_dir(store.right)]
    /\ UNCHANGED <<earlier, stream>>
    /\ UNCHANGED <<buildVars, dbVars>>

\* a directory that was named is named again from its normalized version
\* (update_migration_versions 166-167 normalizes versions that release built)
NameAgain ==
    /\ store.phase = "named"
    /\ store' = [store EXCEPT !.phase = "renamed",
                              !.normal = normalize_version(store.normal),
                              !.left_dir = version_dir(store.normal)]
    /\ UNCHANGED <<earlier, stream>>
    /\ UNCHANGED <<buildVars, dbVars>>

NextNormalize == NameDirs \/ NameAgain

SpecNormalize == InitNormalize /\ [][NextNormalize]_vars

\* C30: normalize_version maps MAJOR.MINOR.PATCH-PRE(+BUILD) to MAJOR.MINOR.0-PRE:
\* patch zeroed, pre-release kept, build metadata dropped; normalizing again
\* changes nothing; and two versions get the same artifact directory name
\* exactly when they agree on major, minor and pre-release.
C30_NormalizeVersion ==
    /\ [](store.phase = "named" =>
            /\ store.normal = Version(store.left.major, store.left.minor, 0, store.left.pre)
            /\ (store.left_dir = store.right_dir) <=>
                    /\ store.left.major = store.right.major
                    /\ store.left.minor = store.right.minor
                    /\ store.left.pre = store.right.pre)
    /\ [][NameAgain => (store'.normal = store.normal /\ store'.left_dir = store.left_dir)]_vars

\* two versions that differ in patch and build metadata share a directory
C30_Witness ==
    /\ store.phase = "renamed"
    /\ store.left.patch # store.right.patch
    /\ store.left.build # store.right.build
    /\ store.left.pre # ""
    /\ store.left_dir = store.right_dir

====
